---- MODULE Spec2Model ----
(***************************************************************************)
(* A state-machine model of TraceAnything (src/trace-anything.js): the     *)
(* class shim, the object shim, the member shims, the event shims, the     *)
(* return-value propagator and the identity registry, driven by an         *)
(* application that constructs objects, calls methods, reads and writes    *)
(* members, listens for events and lets deferred values settle and events  *)
(* fire.                                                                   *)
(***************************************************************************)
EXTENDS Integers, Sequences, FiniteSets, TLC

\* Bounds of the model.
MaxObj == 4
MaxOps == 3
MaxSteps == 5

(***************************************************************************)
(* JavaScript values.  Absent is not a value: it stands for "no such       *)
(* property" (and for a log field that is not set).                        *)
(***************************************************************************)
Undefined == [k |-> "undefined", r |-> 0]
Null == [k |-> "null", r |-> 0]
Absent == [k |-> "absent", r |-> 0]
Prim(n) == [k |-> "primitive", r |-> n]
Ref(o) == [k |-> "object", r |-> o]
Deferred(p) == [k |-> "deferred", r |-> p]
AppError(e) == [k |-> "Error", r |-> e]
TypeError == [k |-> "TypeError", r |-> 0]
RangeError == [k |-> "RangeError", r |-> 0]
StackLimit == MaxObj + 2
GeneratedId(className, id) == [k |-> className \o "_", r |-> id]

\* Member names of the modelled application objects: a method m (on the
\* class prototype, enumerable), own data fields x and id, and the field f of
\* plain result objects; on an event target, the listener property onxchange
\* (an accessor) and the method addEventListener, both its own.
DataMembers == {"x", "id", "f"}
EventMembers == {"onxchange", "addEventListener"}
Members == {"m"} \cup DataMembers \cup EventMembers
MemberOrder == <<"m", "x", "id", "f", "onxchange", "addEventListener">>

\* Class identities: the application class C, the event target class T,
\* plain objects (Object) and objects without a prototype (None).
ClassNames == {"C", "T", "Object"}

\* The event names of the model: the name the listener property onxchange
\* stands for, a name without listener property, and "0", the name of the
\* first index of an array.
EventNames == {"xchange", "foo", "0"}

LogTypes == [Constructor |-> "Constructor", Method |-> "Method",
             Getter |-> "Getter", Setter |-> "Setter",
             Event |-> "Event", Warning |-> "Warning"]

\* extraEvents is an array (a sequence); eventProperties maps event names to
\* member names (the set of its <<event name, member name>> entries).
defaultOptions == [inPlace |-> TRUE, methods |-> TRUE, properties |-> TRUE,
                   treatPromisePropertiesAsEvents |-> TRUE,
                   skipProperties |-> {}, events |-> TRUE, extraEvents |-> <<>>,
                   skipEvents |-> {}, eventProperties |-> {},
                   exploreResultFields |-> {},
                   logAsyncResultsImmediately |-> TRUE, idProperty |-> "id"]

\* Object.assign({}, TraceAnything.defaultOptions, options)
AssignOptions(options) ==
  [n \in DOMAIN defaultOptions |->
     IF n \in DOMAIN options THEN options[n] ELSE defaultOptions[n]]

\* The partial option objects the application passes: to traceObject where
\* the claims are about calls, to traceClass, and to traceObject where the
\* claims are about which members are shimmed.
CallOverrides ==
  { [inPlace |-> ip, logAsyncResultsImmediately |-> la,
     exploreResultFields |-> ex] :
       ip \in BOOLEAN, la \in BOOLEAN, ex \in {{}, {"f"}} }

RegistryOverrides == { [inPlace |-> FALSE, methods |-> FALSE], [inPlace |-> TRUE] }

ClassOverrides ==
  { [inPlace |-> ip, methods |-> me, properties |-> pr, skipProperties |-> sk] :
       ip \in BOOLEAN, me \in BOOLEAN, pr \in BOOLEAN, sk \in {{}, {"x"}} }

MemberOverrides ==
  { [inPlace |-> ip, methods |-> me, properties |-> pr, skipProperties |-> sk] :
       ip \in BOOLEAN, me \in BOOLEAN, pr \in BOOLEAN,
       sk \in {{}, {"x"}, {"m"}} }

(***************************************************************************)
(* The heap.  An object has a class identity (the constructor of its       *)
(* prototype), the marker __TraceAnything__, the generated identity        *)
(* __TraceAnythingId__, the values of its data members (own data property, *)
(* or the propertyValue a property shim's closure holds) and, per member,  *)
(* the shim installed on it.  object and options are what the closures of  *)
(* traceObject captured for a target: the original object and the options. *)
(* events is the set __TraceAnythingEvents__.  fixed holds the members that *)
(* are neither configurable nor writable.  An event target keeps, whatever  *)
(* receiver its accessor and its registration method are called with, the  *)
(* listener assigned to its listener property (on) and the listeners       *)
(* registered with addEventListener, in order, as <<name, listener>>       *)
(* (registered).  proto is the object's prototype where the prototype is   *)
(* itself an object of the heap (0 where it is not): its members and its   *)
(* generated identity are then inherited from it.  accessors holds the     *)
(* data members that are native accessors of the object: an enumerable,    *)
(* configurable getter and setter over a value the two functions close     *)
(* over, kept in data.                                                     *)
(***************************************************************************)
NoShim == [kind |-> "none", object |-> 0, className |-> "", options |-> defaultOptions]

NewObject(cls, data) ==
  [cls |-> cls, marked |-> FALSE, genId |-> Undefined, data |-> data,
   shim |-> [k \in Members |-> NoShim], object |-> 0, options |-> defaultOptions,
   events |-> {}, fixed |-> {}, on |-> Null, registered |-> <<>>, proto |-> 0,
   accessors |-> {}]

NoData == [k \in DataMembers |-> Absent]

\* o is an event target as the application built it (not a wrapper): the
\* listener property and addEventListener are its own members.
IsNativeTarget(heap, o) == heap[o].cls = "T" /\ heap[o].object \in {0, o}

\* typeof object[k] == 'function'
IsFunction(heap, o, k) ==
  \/ k = "m" /\ (heap[o].shim[k].kind # "none" \/ heap[o].cls = "C")
  \/ k = "addEventListener"
       /\ (heap[o].shim[k].kind # "none" \/ IsNativeTarget(heap, o))

\* k in object
HasProperty(heap, o, k) ==
  CASE k \in DataMembers ->
         \/ heap[o].shim[k].kind \in {"property", "accessor", "silent"}
         \/ heap[o].data[k] # Absent
         \/ /\ heap[o].proto # 0
            /\ \/ heap[heap[o].proto].shim[k].kind = "property"
               \/ heap[heap[o].proto].data[k] # Absent
    [] k = "onxchange" ->
         heap[o].shim[k].kind # "none" \/ IsNativeTarget(heap, o)
    [] OTHER -> IsFunction(heap, o, k)

\* for (const k in object): the enumerable members, own and inherited.
Enumerable(heap, o) == {k \in Members : HasProperty(heap, o, k)}


\* traced[k] for a data member: own data property, the value held by a
\* property shim, or undefined when there is no such property.
ReadData(heap, o, k) ==
  LET own == heap[o].data[k]
      value == IF own = Absent /\ heap[o].proto # 0
                 THEN heap[heap[o].proto].data[k] ELSE own
  IN  IF value = Absent THEN Undefined ELSE value

\* The value in the descriptor _getDescriptor finds for the data member k,
\* on the object or on its prototype (Absent where there is none).
DescriptorValue(heap, o, k) ==
  IF heap[o].data[k] = Absent /\ heap[o].proto # 0
    THEN heap[heap[o].proto].data[k] ELSE heap[o].data[k]

\* traced.__TraceAnythingId__: the object's own, or the one it inherits.
InheritedId(heap, o) ==
  IF heap[o].genId = Undefined /\ heap[o].proto # 0
    THEN heap[heap[o].proto].genId ELSE heap[o].genId

(***************************************************************************)
(* The engine's operations are written over a world record                 *)
(*   [heap, log, nextGeneratedId, shimmedClasses]                          *)
(* and return [w, ret, threw]: the world after the call, and the value     *)
(* returned or (threw) the error thrown.                                   *)
(***************************************************************************)
Return(w, v) == [w |-> w, ret |-> v, threw |-> FALSE]
Throw(w, e) == [w |-> w, ret |-> e, threw |-> TRUE]

\* Statements in sequence: r, or what next makes of the world r left when r
\* ended without throwing.
Bind(r, next(_)) == IF r.threw THEN r ELSE next(r.w)

\* options.logger(log)
Logger(w, rec) == [w EXCEPT !.log = Append(@, rec)]

NewLog(type, instance, instanceId, className, name, args, call) ==
  [type |-> type, instance |-> instance, instanceId |-> instanceId,
   className |-> className, name |-> name, args |-> args,
   result |-> Absent, threw |-> Absent, value |-> Absent, call |-> call,
   message |-> Absent]

\* The Warning record of _shimProperty; its message names k and className.
WarningLog(k, className) ==
  [NewLog(LogTypes.Warning, Absent, Absent, "", "", <<>>, 0)
     EXCEPT !.message = <<k, className>>]

\* _getId without the test of traced.__TraceAnythingId__: every lookup draws
\* a new number from the counter.
getIdGeneratedAfresh(w, traced, className) ==
  LET id == IF w.nextGeneratedId[className] = 0
              THEN 1 ELSE w.nextGeneratedId[className]
      w1 == [w EXCEPT !.nextGeneratedId[className] = id + 1,
                      !.heap[traced].genId = GeneratedId(className, id)]
  IN  Return(w1, GeneratedId(className, id))

\* TraceAnything._getId
getIdGenerated(w, traced, className) ==
  IF InheritedId(w.heap, traced) \in {Undefined, Null}
    THEN LET id == IF w.nextGeneratedId[className] = 0
                     THEN 1 ELSE w.nextGeneratedId[className]
             w1 == [w EXCEPT !.nextGeneratedId[className] = id + 1,
                             !.heap[traced].genId = GeneratedId(className, id)]
         IN  Return(w1, GeneratedId(className, id))
    ELSE Return(w, InheritedId(w.heap, traced))

\* The member k of object is a native accessor: one of its accessors, or
\* the listener property of an event target.
IsAccessor(h, object, k) ==
  \/ k \in h[object].accessors
  \/ k = "onxchange" /\ IsNativeTarget(h, object)

\* The native accessor functions of an application object: the getter
\* returns the value the pair closes over and throws while that is null; the
\* setter stores the value and rejects 0 by throwing.  Those of the listener
\* property of an event target get and set the target's listener.  The
\* world notes in heard that the function ran.
ran(w, fn, object, k) ==
  [w EXCEPT !.heard = Append(@, [fn |-> fn, object |-> object, member |-> k])]

nativeGet(w, object, k) ==
  IF k = "onxchange"
    THEN Return(ran(w, "get", object, k), w.heap[object].on)
    ELSE IF w.heap[object].data[k] = Null
      THEN Throw(ran(w, "get", object, k), AppError(1))
      ELSE Return(ran(w, "get", object, k), w.heap[object].data[k])

nativeSet(w, object, k, value) ==
  IF k = "onxchange"
    THEN Return([ran(w, "set", object, k) EXCEPT !.heap[object].on = value],
                Undefined)
    ELSE IF value = Prim(0)
      THEN Throw(ran(w, "set", object, k), AppError(2))
      ELSE Return([ran(w, "set", object, k)
                     EXCEPT !.heap[object].data[k] = value],
                  Undefined)

\* The Getter or Setter record of an accessor shim, completed with what the
\* original accessor did (r): the result or the value, or the error thrown.
accessorLog(type, traced, id, sh, k, value, r) ==
  [NewLog(type, Ref(traced), id, sh.className, k, <<>>, 0)
     EXCEPT !.result = IF type = LogTypes.Getter /\ ~r.threw THEN r.ret ELSE Absent,
            !.value = IF type = LogTypes.Setter /\ ~r.threw THEN value ELSE Absent,
            !.threw = IF r.threw THEN r.ret ELSE Absent]

\* try { ...; options.logger(log); return value }
\* catch (error) { ...; options.logger(log); throw error }
accessed(type, traced, id, sh, k, value, r) ==
  [r EXCEPT !.w = Logger(r.w, accessorLog(type, traced, id, sh, k, value, r))]

\* The object on which the lookup of member k of t ends: t where t has a shim
\* or a value of its own for k, or no prototype in the heap; else the prototype.
Holder(h, t, k) ==
  IF \/ h[t].proto = 0
     \/ h[t].shim[k].kind # "none"
     \/ k \in DataMembers /\ h[t].data[k] # Absent
    THEN t ELSE h[t].proto

\* object[k], or the descriptor _getDescriptor(object, k) finds, as a shim
\* captures it (originalMethod, originalDescriptor): a function or accessor
\* pair of the application (kind "native"), or those of a shim installed
\* before, on the object or on its prototype (kind "shim", with the object
\* that holds the shim and the shim).
OriginalOf(h, object, k) ==
  IF h[Holder(h, object, k)].shim[k].kind \in {"method", "property", "accessor"}
    THEN [kind |-> "shim", object |-> Holder(h, object, k),
          shim |-> h[Holder(h, object, k)].shim[k]]
    ELSE [kind |-> "native", object |-> object, shim |-> NoShim]

\* TraceAnything._getId, and traced[k] as the engine and the application
\* read it.  The getter of an accessor shim calls _getId, which reads
\* traced[options.idProperty]; depth counts the frames of that recursion,
\* which the call stack ends with a RangeError.
RECURSIVE getIdAt(_, _, _, _, _)
RECURSIVE getMemberAt(_, _, _, _)
RECURSIVE getterShimmed(_, _, _, _, _)
RECURSIVE shimGet(_, _, _, _, _)

\* The getter of the shim sh that the object holder carries for k: the
\* shim of a plain stored value returns propertyValue.
shimGet(w, holder, sh, k, depth) ==
  IF sh.kind = "property"
    THEN Return(w, w.heap[holder].data[k])
    ELSE getterShimmed(getIdAt(w, holder, sh.className, sh.options, depth + 1),
                       holder, sh, k, depth)

\* originalDescriptor.get.call(this) in the accessor shim sh
originalGet(w, sh, k, depth) ==
  IF sh.original.kind = "shim"
    THEN shimGet(w, sh.original.object, sh.original.shim, k, depth)
    ELSE nativeGet(w, sh.object, k)

\* The getter _shimProperty defines on traced for an accessor.  The record
\* is built first, with the identity _getId gives; i is what _getId did.
getterShimmed(i, traced, sh, k, depth) ==
  IF i.threw
    THEN i
    ELSE accessed(LogTypes.Getter, traced, i.ret, sh, k, Absent,
                  originalGet(i.w, sh, k, depth))

\* The getter of member k where the lookup of this[k] ends
heldGet(w, holder, k, depth) ==
  CASE w.heap[holder].shim[k].kind = "accessor" ->
         shimGet(w, holder, w.heap[holder].shim[k], k, depth)
    [] /\ w.heap[holder].shim[k].kind = "silent"
       /\ IsAccessor(w.heap, w.heap[holder].shim[k].object, k) ->
         nativeGet(w, w.heap[holder].shim[k].object, k)
    [] w.heap[holder].shim[k].kind = "none" /\ IsAccessor(w.heap, holder, k) ->
         nativeGet(w, holder, k)
    [] OTHER -> Return(w, ReadData(w.heap, holder, k))

getMemberAt(w, traced, k, depth) ==
  heldGet(w, Holder(w.heap, traced, k), k, depth)

getIdAt(w, traced, className, options, depth) ==
  IF depth > StackLimit
    THEN Throw(w, RangeError)
    ELSE IF /\ options.idProperty # ""
            /\ HasProperty(w.heap, traced, options.idProperty)
           THEN getMemberAt(w, traced, options.idProperty, depth)
           ELSE getIdGenerated(w, traced, className)

getId(w, traced, className, options) == getIdAt(w, traced, className, options, 0)

\* traced[k], read by the application
getMember(w, traced, k) == getMemberAt(w, traced, k, 0)

\* The Setter record of the setter _shimProperty installs for a plain
\* stored value, then propertyValue = value.
propertySet(i, traced, sh, k, value) ==
  [Logger(i.w, [NewLog(LogTypes.Setter, Ref(traced), i.ret, sh.className, k,
                       <<>>, 0) EXCEPT !.value = value])
     EXCEPT !.heap[traced].data[k] = value]

\* The setter _shimProperty installs for a plain stored value; i is what
\* _getId did while the record was built.
propertyWritten(i, traced, sh, k, value) ==
  IF i.threw
    THEN i
    ELSE Return(propertySet(i, traced, sh, k, value), value)

RECURSIVE setterShimmed(_, _, _, _, _)

\* The setter of the shim sh that the object holder carries for k
shimSet(w, holder, sh, k, value) ==
  IF sh.kind = "property"
    THEN propertyWritten(getId(w, holder, sh.className, sh.options), holder,
                         sh, k, value)
    ELSE setterShimmed(getId(w, holder, sh.className, sh.options), holder, sh,
                       k, value)

\* originalDescriptor.set.call(this, value) in the accessor shim sh
originalSet(w, sh, k, value) ==
  IF sh.original.kind = "shim"
    THEN shimSet(w, sh.original.object, sh.original.shim, k, value)
    ELSE nativeSet(w, sh.object, k, value)

\* The setter _shimProperty defines on traced for an accessor.
setterShimmed(i, traced, sh, k, value) ==
  IF i.threw
    THEN i
    ELSE accessed(LogTypes.Setter, traced, i.ret, sh, k, value,
                  originalSet(i.w, sh, k, value))

\* traced[k] = value for a member with an accessor shim
setAccessor(w, traced, k, value) ==
  shimSet(w, traced, w.heap[traced].shim[k], k, value)

\* TraceAnything._shimMethod: traced[k] = function(...args) {...}.  The
\* code is strict, so the assignment to a member that is not writable throws.
shimMethod(w, traced, object, k, className, options) ==
  IF k \in w.heap[traced].fixed
    THEN Throw(w, TypeError)
    ELSE Return([w EXCEPT !.heap[traced].shim[k] =
                   [kind |-> "method", object |-> object,
                    className |-> className, options |-> options,
                    original |-> OriginalOf(w.heap, object, k)]],
                Undefined)

\* TraceAnything._shimPropertySilent: the wrapper gets a copy of the
\* original's descriptor, the value of a plain member or the accessor
\* functions of a native accessor.
shimPropertySilent(w, traced, object, k, options) ==
  IF options.inPlace
    THEN w
    ELSE LET w1 == [w EXCEPT !.heap[traced].shim[k] =
                      [kind |-> "silent", object |-> object, className |-> "",
                       options |-> options]]
         IN  IF k \in DataMembers /\ ~IsAccessor(w.heap, object, k)
               THEN [w1 EXCEPT !.heap[traced].data[k] =
                                 DescriptorValue(w.heap, object, k)]
               ELSE w1

\* TraceAnything._shimProperty: for a member that is a plain stored value
\* the shim keeps the value (propertyValue); for an accessor, native or
\* defined by a shim before, it delegates to the accessor functions found.
shimProperty(w, traced, object, k, className, options) ==
  IF options.inPlace /\ k \in w.heap[object].fixed
    THEN Logger(w, WarningLog(k, className))
    ELSE IF \/ IsAccessor(w.heap, object, k)
            \/ OriginalOf(w.heap, object, k).kind = "shim"
      THEN [w EXCEPT !.heap[traced].shim[k] =
                       [kind |-> "accessor", object |-> object,
                        className |-> className, options |-> options,
                        original |-> OriginalOf(w.heap, object, k)]]
      ELSE [w EXCEPT !.heap[traced].shim[k] =
                       [kind |-> "property", object |-> object,
                        className |-> className, options |-> options],
                     !.heap[traced].data[k] = DescriptorValue(w.heap, object, k)]

\* TraceAnything._shimPromiseProperty: object[k].then(...) registers the two
\* callbacks on the deferred value; nothing is defined on traced.  The shim
\* entry of traced notes the registration (kind "promise") until one of the
\* callbacks has run (kind "promised").
shimPromiseProperty(w, traced, object, k, className, options) ==
  [w EXCEPT !.heap[traced].shim[k] =
              [kind |-> "promise", object |-> object, className |-> className,
               options |-> options]]

\* object[k] && object[k].then, for a member that is no function
IsThenable(heap, object, k) ==
  k \in DataMembers /\ DescriptorValue(heap, object, k).k = "deferred"

\* TraceAnything._shimMember
shimMember(w, traced, object, k, className, options) ==
  IF IsFunction(w.heap, object, k)
    THEN IF options.methods
           THEN shimMethod(w, traced, object, k, className, options)
           ELSE Return(shimPropertySilent(w, traced, object, k, options), Undefined)
    ELSE IF /\ options.properties /\ options.treatPromisePropertiesAsEvents
            /\ IsThenable(w.heap, object, k)
      THEN Return(shimPromiseProperty(w, traced, object, k, className, options),
                  Undefined)
    ELSE IF options.properties
           THEN Return(shimProperty(w, traced, object, k, className, options),
                       Undefined)
           ELSE Return(shimPropertySilent(w, traced, object, k, options), Undefined)

\* for (const k of allProperties) TraceAnything._shimMember(...)
RECURSIVE shimMembers(_, _, _, _, _, _)
shimMembers(w, traced, object, ks, className, options) ==
  IF ks = <<>>
    THEN Return(w, Undefined)
    ELSE Bind(shimMember(w, traced, object, Head(ks), className, options),
              LAMBDA v : shimMembers(v, traced, object, Tail(ks), className,
                                     options))

\* The candidate member names of traceObject.
allProperties(heap, object, options) ==
  SelectSeq(MemberOrder, LAMBDA k : /\ k \in Enumerable(heap, object)
                                    /\ k \notin options.skipProperties)

\* k.startsWith('on')
StartsWithOn(k) == k = "onxchange"

\* k.replace(/^on/, '')
EventOfProperty(k) == IF k = "onxchange" THEN "xchange" ELSE k

(***************************************************************************)
(* Listeners.  An application listener is Listener(n); () => {} is Noop;   *)
(* the function _shimEventListener returns is a record of what its closure *)
(* holds: traced, listener, className, eventName, options and the          *)
(* correspondingPropertyName found when it was built ("" for null).        *)
(***************************************************************************)
Listener(n) == [k |-> "listener", r |-> n]
Noop == [k |-> "noop", r |-> 0]

\* eventName.toLowerCase().replace(/change$/, ''), for the event names of the
\* model (all in lower case).
LowerCasePropertyName(eventName) ==
  IF eventName = "xchange" THEN "x" ELSE eventName

\* for (const k in traced) if (k.toLowerCase() == lowerCasePropertyName)
\* (the member names of the model are in lower case).
HeuristicProperty(heap, traced, eventName) ==
  LET found == SelectSeq(MemberOrder,
                 LAMBDA k : /\ k \in Enumerable(heap, traced)
                            /\ k = LowerCasePropertyName(eventName))
  IN  IF found = <<>> THEN "" ELSE Head(found)

\* TraceAnything._shimEventListener
shimEventListener(heap, traced, listener, className, eventName, options) ==
  [k |-> "shim", r |-> 0, traced |-> traced, listener |-> listener,
   className |-> className, eventName |-> eventName, options |-> options,
   property |->
     IF \E e \in options.eventProperties : e[1] = eventName
       THEN (CHOOSE e \in options.eventProperties : e[1] = eventName)[2]
       ELSE HeuristicProperty(heap, traced, eventName)]

\* The target's own addEventListener: whatever the receiver, the listener
\* joins the listeners of the target the function belongs to.
nativeAddEventListener(w, target, eventName, listener) ==
  [w EXCEPT !.heap[target].registered = Append(@, <<eventName, listener>>)]

\* The function _shimMethod installed on addEventListener, called as
\* this.addEventListener(eventName, listener): the original returns
\* undefined, so the record is emitted and undefined returned.
invokeAddEventListenerShim(w, this, sh, eventName, listener) ==
  LET id == getId(w, this, sh.className, sh.options)
      rec == [NewLog(LogTypes.Method, Ref(this), id.ret, sh.className,
                     "addEventListener", <<eventName, listener>>, 0)
                EXCEPT !.result = Undefined]
  IN  Logger(nativeAddEventListener(id.w, sh.object, eventName, listener), rec)

\* const originalMethod = object.addEventListener, as the dynamic shim found
\* it: in place, the method shim that _shimMember has just installed over it.
OriginalIsMethodShim(heap, object, options) ==
  /\ options.inPlace
  /\ options.methods
  /\ "addEventListener" \in Enumerable(heap, object)
  /\ "addEventListener" \notin options.skipProperties

\* originalMethod.call(this, eventName, listener) in the dynamic shim sh
originalAddEventListener(w, this, sh, eventName, listener) ==
  IF OriginalIsMethodShim(w.heap, sh.object, sh.options)
    THEN invokeAddEventListenerShim(w, this, sh, eventName, listener)
    ELSE nativeAddEventListener(w, sh.object, eventName, listener)

\* The function _shimEventListenersDynamically installed on traced, called
\* as traced.addEventListener(eventName, listener).
dynamicAddEventListener(w, traced, sh, eventName, listener) ==
  IF eventName \notin w.heap[traced].events
       /\ eventName \notin sh.options.skipEvents
    THEN LET w1 == [w EXCEPT !.heap[traced].events = @ \cup {eventName}]
             l == shimEventListener(w1.heap, traced, Noop, sh.className,
                                    eventName, sh.options)
             w2 == originalAddEventListener(w1, traced, sh, eventName, l)
         IN  originalAddEventListener(w2, traced, sh, eventName, listener)
    ELSE originalAddEventListener(w, traced, sh, eventName, listener)

\* this.addEventListener(eventName, listener), whatever that member is now
addEventListener(w, this, eventName, listener) ==
  LET sh == w.heap[this].shim["addEventListener"] IN
  CASE sh.kind = "dynamic" ->
         Return(dynamicAddEventListener(w, this, sh, eventName, listener), Undefined)
    [] sh.kind = "method" ->
         Return(invokeAddEventListenerShim(w, this, sh, eventName, listener),
                Undefined)
    [] sh.kind = "silent" ->
         Return(nativeAddEventListener(w, sh.object, eventName, listener), Undefined)
    [] OTHER ->
         IF IsNativeTarget(w.heap, this)
           THEN Return(nativeAddEventListener(w, this, eventName, listener),
                       Undefined)
           ELSE Throw(w, TypeError)

\* TraceAnything._shimEventListenersDynamically: traced.addEventListener =
\* function(...) {...}, an assignment that throws for a member of traced
\* that is not writable.
shimEventListenersDynamically(w, traced, object, className, options) ==
  IF "addEventListener" \in w.heap[traced].fixed
    THEN Throw(w, TypeError)
    ELSE Return([w EXCEPT !.heap[traced].shim["addEventListener"] =
                   [kind |-> "dynamic", object |-> object,
                    className |-> className, options |-> options]],
                Undefined)

\* The setter _shimEventListenerProperty installed, called as
\* this[k] = listener; the target's own setter keeps the shim.
setEventListenerProperty(w, sh, listener) ==
  LET l == IF listener \in {Null, Undefined} THEN Noop ELSE listener
      shim == shimEventListener(w.heap, sh.object, l, sh.className,
                                EventOfProperty("onxchange"), sh.options)
  IN  [w EXCEPT !.heap[sh.object].on = shim]

\* TraceAnything._shimEventListenerProperty.  Object.defineProperty throws
\* for a member of traced that is not configurable.
shimEventListenerProperty(w, traced, object, k, className, options) ==
  LET eventName == EventOfProperty(k) IN
  IF eventName \in options.skipEvents
    THEN Return(w, Undefined)
    ELSE
      LET w1 == [w EXCEPT !.heap[traced].events = @ \cup {eventName}]
          oldListener == w.heap[object].on
          sh == [kind |-> "listener", object |-> object,
                 className |-> className, options |-> options]
      IN  IF k \in w.heap[traced].fixed
            THEN Throw(w1, TypeError)
            ELSE Return(setEventListenerProperty(
                          [w1 EXCEPT !.heap[traced].shim[k] = sh], sh, oldListener),
                        Undefined)

\* for (const k of allProperties.filter((k) => k.startsWith('on')))
RECURSIVE shimEventListenerProperties(_, _, _, _, _, _)
shimEventListenerProperties(w, traced, object, ks, className, options) ==
  IF ks = <<>>
    THEN Return(w, Undefined)
    ELSE Bind(shimEventListenerProperty(w, traced, object, Head(ks),
                                        className, options),
              LAMBDA v : shimEventListenerProperties(v, traced, object, Tail(ks),
                                                     className, options))

\* The names for (const eventName in options.extraEvents) visits: the
\* indices of the array, as strings.
IndexName(i) == IF i = 1 THEN "0" ELSE "1"
ExtraEventNames(options) ==
  [i \in 1..Len(options.extraEvents) |-> IndexName(i)]

\* The body of the loop over options.extraEvents, for one name: the name
\* joins the set, then a shim around a no-op is registered.
addEventToSet(w, traced, eventName) ==
  [w EXCEPT !.heap[traced].events = @ \cup {eventName}]

registerForced(w, traced, object, eventName, className, options) ==
  addEventListener(w, traced, eventName,
                   shimEventListener(w.heap, object, Noop, className,
                                     eventName, options))

forceEvent(w, traced, object, eventName, className, options) ==
  registerForced(addEventToSet(w, traced, eventName), traced, object,
                 eventName, className, options)

\* for (const eventName in options.extraEvents) { ... }
RECURSIVE forceEvents(_, _, _, _, _, _)
forceEvents(w, traced, object, names, className, options) ==
  IF names = <<>>
    THEN Return(w, Undefined)
    ELSE
      Bind(forceEvent(w, traced, object, Head(names), className, options),
           LAMBDA v : forceEvents(v, traced, object, Tail(names), className,
                                  options))

\* const traced = options.inPlace ? object : {}
Target(w, object, options) ==
  IF options.inPlace THEN object ELSE Len(w.heap) + 1

\* Mutant of AlreadyTraced: the guard is missing.
AlreadyTracedNever(w, object) == FALSE

\* if (object.__TraceAnything__): we're already tracing this
AlreadyTraced(w, object) == w.heap[object].marked

\* if (options.events) { ... }: the listener properties, then the dynamic
\* discovery if (object.addEventListener).
shimEvents(w, traced, object, all, className, options) ==
  IF ~options.events
    THEN Return(w, Undefined)
    ELSE
      Bind(shimEventListenerProperties(w, traced, object,
             SelectSeq(all, StartsWithOn), className, options),
           LAMBDA v :
             IF IsFunction(v.heap, object, "addEventListener")
               THEN shimEventListenersDynamically(v, traced, object, className,
                                                  options)
               ELSE Return(v, Undefined))

\* Object.setPrototypeOf(traced, ctor.prototype); the marker; the identity.
\* traced keeps what the closures of its shims captured (object, options).
markTraced(w, traced, object, className, options) ==
  Bind(getId([w EXCEPT !.heap[traced].cls = className,
                       !.heap[traced].marked = TRUE,
                       !.heap[traced].object = object,
                       !.heap[traced].options = options],
             traced, className, options),
       LAMBDA v : Return(v, Ref(traced)))

\* traceObject from traced.__TraceAnythingEvents__ = new Set() to the end.
\* A wrapper finds the enumerable __TraceAnythingId__ of the original among
\* the members it copied.
finishTraceObject(w, traced, object, all, className, options) ==
  Bind(Bind(shimEvents([w EXCEPT !.heap[traced].events = {}], traced, object,
                       all, className, options),
            LAMBDA v : forceEvents(v, traced, object, ExtraEventNames(options),
                                   className, options)),
       LAMBDA v : markTraced(v, traced, object, className, options))

\* TraceAnything.traceObject
traceObject(w, object, opts) ==
  LET options == AssignOptions(opts) IN
  IF AlreadyTraced(w, object)
    THEN Return(w, Ref(object))
    ELSE IF w.heap[object].cls = "None"
      THEN Throw(w, TypeError)
      ELSE
        LET className == w.heap[object].cls
            traced == Target(w, object, options)
            all == allProperties(w.heap, object, options)
            w1 == IF options.inPlace
                    THEN w
                    ELSE [w EXCEPT !.heap = Append(@,
                            [NewObject("Object", NoData) EXCEPT
                               !.genId = w.heap[object].genId])]
        IN  Bind(shimMembers(w1, traced, object,
                             SelectSeq(all, LAMBDA k :
                               ~(StartsWithOn(k) /\ options.events)),
                             className, options),
                 LAMBDA v : finishTraceObject(v, traced, object, all, className,
                                              options))

\* The function that is the member m of the object h.
Function(h) == [k |-> "function", r |-> h]

\* traced[name], as traceMember and tracePrototype return it.
MemberOf(w, traced, name) ==
  IF name = "m" THEN Return(w, Function(traced)) ELSE getMember(w, traced, name)

\* TraceAnything.traceMember(object, name, opts)
traceMember(w, object, name, opts) ==
  LET options == AssignOptions(opts)
      className == w.heap[object].cls
      traced == IF options.inPlace THEN object ELSE Len(w.heap) + 1
      w1 == IF options.inPlace
              THEN w
              ELSE [w EXCEPT !.heap = Append(@, NewObject("Object", NoData))]
  IN  Bind(shimMember(w1, traced, object, name, className, options),
           LAMBDA v : MemberOf(v, traced, name))

\* TraceAnything.tracePrototype(ctor, name, opts); prototype is ctor.prototype
\* and ctor.name is the class of the prototype's instances.
tracePrototype(w, prototype, name, opts) ==
  LET options == AssignOptions(opts)
      traced == IF options.inPlace THEN prototype ELSE Len(w.heap) + 1
      w1 == IF options.inPlace
              THEN w
              ELSE [w EXCEPT !.heap = Append(@, NewObject("Object", NoData))]
  IN  Bind(shimMember(w1, traced, prototype, name, w.heap[prototype].cls,
                      options),
           LAMBDA v : MemberOf(v, traced, name))

\* TraceAnything._extractProperty, for the members events are correlated
\* with (data members: their value is no function).
extractProperty(heap, object, name) ==
  IF name \in DataMembers THEN ReadData(heap, object, name) ELSE Undefined

\* An application listener runs: Listener(n) returns n, () => {} returns
\* undefined.  The world notes in heard that an application listener ran (it
\* leaves the engine alone), how many records the log held then, and whether
\* a function of _shimEventListener forwarded the call (wrapped).
hear(w, l, wrapped) ==
  IF l = Noop
    THEN Return(w, Undefined)
    ELSE Return([w EXCEPT !.heard = Append(@, [listener |-> l,
                                              logLen |-> Len(w.log),
                                              wrapped |-> wrapped])],
                Prim(l.r))

\* The Event record of the function _shimEventListener returned (l), with
\* the identity id.
eventLog(w, l, id) ==
  [NewLog(LogTypes.Event, Ref(l.traced), id, l.className, l.eventName, <<>>, 0)
     EXCEPT !.value = IF l.property = "" THEN Absent
                      ELSE extractProperty(w.heap, l.traced, l.property)]

\* options.logger(log) in the function _shimEventListener returned
logEvent(i, l) == Logger(i.w, eventLog(i.w, l, i.ret))

RECURSIVE callListenerForwardFirst(_, _, _)
RECURSIVE callListener(_, _, _)

\* Mutant of callListener: the call is forwarded before the record is
\* emitted.
forwardedFirst(r, l) ==
  [r EXCEPT !.w = logEvent(getId(r.w, l.traced, l.className, l.options), l)]

callListenerForwardFirst(w, l, wrapped) ==
  IF l.k # "shim"
    THEN hear(w, l, wrapped)
    ELSE forwardedFirst(callListenerForwardFirst(w, l.listener, TRUE), l)

\* A listener is called with an event: the function _shimEventListener
\* returned emits the Event record, then calls the listener it wraps and
\* returns what that returns.
callListener(w, l, wrapped) ==
  IF l.k # "shim"
    THEN hear(w, l, wrapped)
    ELSE callListener(logEvent(getId(w, l.traced, l.className, l.options), l),
                      l.listener, TRUE)

\* The target calls its listeners in turn; returns holds what each returned.
RECURSIVE callListeners(_, _, _)
RECURSIVE called(_, _, _)
callListeners(w, ls, returns) ==
  IF ls = <<>>
    THEN [w |-> w, returns |-> returns]
    ELSE called(callListener(w, Head(ls), FALSE), Tail(ls), returns)

called(r, ls, returns) == callListeners(r.w, ls, Append(returns, r.ret))

\* The listeners the target calls when the event fires: the one assigned
\* to the listener property of that event, then the registered ones.
ListenersOf(heap, target, eventName) ==
  (IF eventName = EventOfProperty("onxchange") /\ heap[target].on # Null
     THEN <<heap[target].on>> ELSE <<>>)
  \o [i \in 1..Len(SelectSeq(heap[target].registered,
                              LAMBDA e : e[1] = eventName)) |->
        SelectSeq(heap[target].registered, LAMBDA e : e[1] = eventName)[i][2]]

(***************************************************************************)
(* The return-value propagator.  The recursion over explored fields has no *)
(* guard of its own in the source; the call stack is finite, so a          *)
(* recursion deeper than any chain of distinct objects ends in a           *)
(* RangeError.                                                             *)
(***************************************************************************)

\* Object.getPrototypeOf(returnValue).constructor
ReturnType(w, returnValue) ==
  IF returnValue.k = "object" THEN w.heap[returnValue.r].cls ELSE "Number"

\* returnValue.__TraceAnything__
IsMarked(w, returnValue) ==
  returnValue.k = "object" /\ w.heap[returnValue.r].marked

\* TraceAnything._shimmedClasses.get(returnType)
Registered(w, returnType) ==
  returnType \in ClassNames /\ w.shimmedClasses[returnType] # <<>>

ExploreOrder(options) ==
  SelectSeq(MemberOrder, LAMBDA k : k \in options.exploreResultFields)

\* Mutant of RegisteredOptions: the calling method's options are passed on.
RegisteredOptionsOfCaller(w, returnType, options) == options

\* The options traceObject is given for a return value of a registered type.
RegisteredOptions(w, returnType, options) == w.shimmedClasses[returnType][1]

RECURSIVE shimReturnValue(_, _, _, _)
RECURSIVE exploreFields(_, _, _, _, _)

\* for (const k of options.exploreResultFields) if (k in returnValue) ...
exploreFields(w, returnValue, ks, options, fuel) ==
  IF ks = <<>>
    THEN Return(w, returnValue)
    ELSE IF returnValue.k = "primitive"
      THEN Throw(w, TypeError)
      ELSE IF returnValue.k # "object" \/ ~HasProperty(w.heap, returnValue.r, Head(ks))
        THEN exploreFields(w, returnValue, Tail(ks), options, fuel)
        ELSE
          LET r == shimReturnValue(w, ReadData(w.heap, returnValue.r, Head(ks)),
                                   options, fuel - 1)
          IN  IF r.threw
                THEN r
                ELSE exploreFields(
                       [r.w EXCEPT !.heap[returnValue.r].data[Head(ks)] = r.ret],
                       returnValue, Tail(ks), options, fuel)

\* TraceAnything._shimReturnValue
shimReturnValue(w, returnValue, options, fuel) ==
  IF fuel = 0
    THEN Throw(w, RangeError)
    ELSE IF returnValue \in {Null, Undefined}
      THEN Return(w, returnValue)
      ELSE IF IsMarked(w, returnValue)
        THEN Return(w, returnValue)
        ELSE IF returnValue.k = "object" /\ w.heap[returnValue.r].cls = "None"
          THEN Throw(w, TypeError)
          ELSE IF Registered(w, ReturnType(w, returnValue))
            THEN traceObject(w, returnValue.r,
                             RegisteredOptions(w, ReturnType(w, returnValue),
                                               options))
            ELSE exploreFields(w, returnValue, ExploreOrder(options), options, fuel)

(***************************************************************************)
(* The application.  What an original method (or the settlement of the     *)
(* deferred value it returned) produces is chosen by the application: an   *)
(* error, undefined, null, a primitive, a fresh plain object (with a field *)
(* f), a fresh object without prototype, a fresh instance of C built       *)
(* outside the engine, an object that exists already, or a deferred value. *)
(***************************************************************************)
NativeInstance(id) == NewObject("C", [x |-> Prim(0), id |-> id, f |-> Absent])

Outcome(t, f, o) == [t |-> t, f |-> f, o |-> o]

SettledOutcomes(heap) ==
  {Outcome(t, "", 0) : t \in {"throw", "undefined", "null", "primitive",
                              "noproto", "instance"}}
  \cup {Outcome("plain", f, 0) : f \in {"absent", "null", "primitive", "self", "instance"}}
  \cup {Outcome("existing", "", o) : o \in 1..Len(heap)}

Outcomes(heap) == SettledOutcomes(heap) \cup {Outcome("deferred", "", 0)}

\* The number of objects the outcome allocates.
Allocates(oc) ==
  CASE oc.t = "plain" -> IF oc.f = "instance" THEN 2 ELSE 1
    [] oc.t \in {"noproto", "instance"} -> 1
    [] OTHER -> 0

PlainField(oc, o) ==
  CASE oc.f = "absent" -> Absent
    [] oc.f = "null" -> Null
    [] oc.f = "primitive" -> Prim(5)
    [] oc.f = "self" -> Ref(o)
    [] OTHER -> Ref(o + 1)

\* originalMethod.apply(this, args), or the settlement of its deferred value
Original(w, oc, nextPromise) ==
  LET o == Len(w.heap) + 1 IN
  CASE oc.t = "throw" -> Throw(w, AppError(1))
    [] oc.t = "undefined" -> Return(w, Undefined)
    [] oc.t = "null" -> Return(w, Null)
    [] oc.t = "primitive" -> Return(w, Prim(3))
    [] oc.t = "noproto" ->
         Return([w EXCEPT !.heap = Append(@, NewObject("None", NoData))], Ref(o))
    [] oc.t = "instance" ->
         Return([w EXCEPT !.heap = Append(@, NativeInstance(Absent))], Ref(o))
    [] oc.t = "plain" ->
         LET obj == NewObject("Object", [NoData EXCEPT !["f"] = PlainField(oc, o)])
         IN  Return([w EXCEPT !.heap =
                       IF oc.f = "instance"
                         THEN Append(Append(@, obj), NativeInstance(Absent))
                         ELSE Append(@, obj)],
                    Ref(o))
    [] oc.t = "existing" -> Return(w, Ref(oc.o))
    [] OTHER -> Return(w, Deferred(nextPromise))

(***************************************************************************)
(* The function _shimMethod installs, invoked as this.m(...args) while the *)
(* original method produces outcome oc.  call numbers the invocation.      *)
(* Returns [w, ret, threw] and, for the continuation, the log object as    *)
(* the call left it (log) and whether continuations were registered on a   *)
(* deferred return value (async).                                          *)
(***************************************************************************)
Invoked(r, log, async) ==
  [w |-> r.w, ret |-> r.ret, threw |-> r.threw, log |-> log, async |-> async]

\* Mutant of catchLog: the error is not recorded.
catchLogWithoutError(log, error) == [log EXCEPT !.result = Absent]

\* catch (error) { delete log.result; log.threw = error; ... }
catchLog(log, error) == [log EXCEPT !.result = Absent, !.threw = error]

\* Mutant of LogsAtSettlement: the continuations log in both modes.
LogsAtSettlementAlways(options) == TRUE

\* if (!options.logAsyncResultsImmediately), in the continuations
LogsAtSettlement(options) == ~options.logAsyncResultsImmediately

\* What the shim does with what _shimReturnValue did (r), its record being
\* log1: the catch block, or the return of the value.
shimmedReturn(r, log1) ==
  IF r.threw
    THEN Invoked(Throw(Logger(r.w, catchLog(log1, r.ret)), r.ret),
                 catchLog(log1, r.ret), FALSE)
    ELSE Invoked(r, log1, FALSE)

RECURSIVE invokeShim(_, _, _, _, _, _, _)

\* originalMethod.apply(this, args) in the method shim sh: the method of
\* the application, or the function a shim installed before.
originalMethod(w, this, sh, args, oc, call, nextPromise) ==
  IF sh.original.kind = "shim"
    THEN [i \in {"w", "ret", "threw"} |->
            invokeShim(w, this, sh.original.shim, args, oc, call, nextPromise)[i]]
    ELSE Original(w, oc, nextPromise)

\* The function _shimMethod installed, from try { on; log0 is the record as
\* built before and orig what the original method did.
methodReturned(orig, log0, options, nextPromise) ==
  IF orig.threw
    THEN LET log1 == catchLog(log0, orig.ret)
         IN  Invoked(Throw(Logger(orig.w, log1), orig.ret), log1, FALSE)
    ELSE
      LET returnValue == orig.ret
          log1 == [log0 EXCEPT !.result = returnValue]
      IN
      IF returnValue \in {Null, Undefined}
        THEN Invoked(Return(Logger(orig.w, log1), returnValue), log1, FALSE)
        ELSE IF returnValue.k = "deferred"
          THEN Invoked(Return(IF options.logAsyncResultsImmediately
                                THEN Logger(orig.w, log1) ELSE orig.w,
                              Deferred(nextPromise + 1)),
                       log1, TRUE)
          ELSE
            shimmedReturn(shimReturnValue(Logger(orig.w, log1), returnValue,
                                          options, StackLimit),
                          log1)

\* The function _shimMethod installed; i is what _getId did while the
\* record was built.
methodCalled(i, this, sh, args, oc, call, nextPromise) ==
  IF i.threw
    THEN Invoked(i, NewLog(LogTypes.Method, Ref(this), Absent, sh.className,
                           "m", args, call), FALSE)
    ELSE methodReturned(originalMethod(i.w, this, sh, args, oc, call,
                                       nextPromise),
                        NewLog(LogTypes.Method, Ref(this), i.ret, sh.className,
                               "m", args, call),
                        sh.options, nextPromise)

invokeShim(w, this, sh, args, oc, call, nextPromise) ==
  methodCalled(getId(w, this, sh.className, sh.options), this, sh, args, oc,
               call, nextPromise)

(***************************************************************************)
(* The continuations the shim registered with returnValue.then(...), run   *)
(* when the original deferred value settles with outcome oc.  Returns the  *)
(* world and how promiseShim is left: fulfilled, rejected or (when the     *)
(* continuation ended by an exception before resolve) still pending.       *)
(***************************************************************************)
Continued(w, state, value, orig) ==
  [w |-> w, state |-> state, value |-> value,
   origState |-> IF orig.threw THEN "rejected" ELSE "fulfilled",
   origValue |-> orig.ret]

\* The success continuation after _shimReturnValue did r: an exception ends
\* it before the record and before resolve.
continuedReturn(r, cl, orig) ==
  IF r.threw
    THEN Continued(r.w, "pending", Undefined, orig)
    ELSE Continued(IF LogsAtSettlement(cl.options)
                     THEN Logger(r.w, [cl.log EXCEPT !.result = r.ret])
                     ELSE r.w,
                   "fulfilled", r.ret, orig)

continueShim(w, cl, oc) ==
  LET options == cl.options
      orig == Original(w, oc, 0)
  IN
  IF orig.threw
    THEN Continued(IF LogsAtSettlement(options)
                     THEN Logger(orig.w, [cl.log EXCEPT !.result = Absent,
                                                        !.threw = orig.ret])
                     ELSE orig.w,
                   "rejected", orig.ret, orig)
    ELSE
      continuedReturn(shimReturnValue(orig.w, orig.ret, options, StackLimit),
                      cl, orig)

(***************************************************************************)
(* State.                                                                  *)
(*   heap, log, nextGeneratedId, shimmedClasses: the world of the engine   *)
(*   promises: the deferred values (originals and promiseShims)            *)
(*   calls:    the invocations of the member m made so far, with the       *)
(*             continuation state of the asynchronous ones                 *)
(*   twin:     per object, the data members of an uninstrumented twin that *)
(*             received the same writes                                    *)
(*   last:     the latest operation and what its caller observed           *)
(*   ops:      the number of operations performed                          *)
(***************************************************************************)
VARIABLES heap, log, nextGeneratedId, shimmedClasses, promises, calls,
          twin, last, ops

vars == <<heap, log, nextGeneratedId, shimmedClasses, promises, calls,
          twin, last, ops>>

World == [heap |-> heap, log |-> log, nextGeneratedId |-> nextGeneratedId,
          shimmedClasses |-> shimmedClasses, heard |-> <<>>]

\* The twin of a new object: for a wrapper, the original's members; if not,
\* its own.
ExtendTwin(h) ==
  [i \in 1..Len(h) |->
     IF i <= Len(twin) THEN twin[i]
     ELSE IF h[i].object # 0 THEN h[h[i].object].data
     ELSE h[i].data]

Commit(w) ==
  /\ heap' = w.heap
  /\ log' = w.log
  /\ nextGeneratedId' = w.nextGeneratedId
  /\ shimmedClasses' = w.shimmedClasses

\* What the caller of an operation observed (threw, ret), with the
\* operation's object argument or receiver (object; for a settlement, the
\* call), whether that object carried the marker before (marked), what the
\* original operation underneath did (orig: [threw, ret, marked], marked
\* telling whether the value it produced carried the marker), and the
\* numbers of records and objects before the operation, and the application
\* functions the operation ran (heard).
Observed(op, object, member, args, orig, r, marked) ==
  [op |-> op, object |-> object, member |-> member, args |-> args,
   origThrew |-> orig.threw, orig |-> orig.ret, origMarked |-> orig.marked,
   threw |-> r.threw, ret |-> r.ret, marked |-> marked,
   logLen |-> Len(log), heapLen |-> Len(heap),
   heard |-> IF "w" \in DOMAIN r THEN r.w.heard ELSE <<>>]

NoOriginal == [threw |-> FALSE, ret |-> Undefined, marked |-> FALSE]

\* What an original operation did, as Observed records it.
OriginalDid(r) ==
  [threw |-> r.threw, ret |-> r.ret,
   marked |-> r.ret.k = "object" /\ r.ret.r <= Len(heap) /\ heap[r.ret.r].marked]

Pending == [state |-> "pending", value |-> Undefined]

ArgLists == {<<>>, <<Prim(1), Prim(2)>>}
WriteValues == {Prim(1)}
AccessedMembers == {"x", "id"}

\* The objects the application holds as instrumented.
Traced == {t \in 1..Len(heap) : heap[t].marked}

Init ==
  /\ \E id \in {Absent, Prim(7)} : heap = <<NativeInstance(id)>>
  /\ log = <<>>
  /\ nextGeneratedId = [c \in ClassNames |-> 0]
  /\ shimmedClasses = [c \in ClassNames |-> <<>>]
  /\ promises = <<>>
  /\ calls = <<>>
  /\ twin = <<heap[1].data>>
  /\ last = Observed("init", 0, "", <<>>, NoOriginal, Return(World, Undefined), FALSE)
  /\ ops = 0

\* TraceAnything.traceClass(C, opts)
TraceClass(opts) ==
  LET options == AssignOptions(opts) IN
  /\ ops < MaxOps
  /\ shimmedClasses' = [shimmedClasses EXCEPT !["C"] = <<options>>]
  /\ last' = Observed("traceClass", 0, "", <<>>, NoOriginal,
                      Return(World, Undefined), FALSE)
  /\ ops' = ops + 1
  /\ UNCHANGED <<heap, log, nextGeneratedId, promises, calls, twin>>

\* Mutant of constructorCatch: the error is logged and not thrown again.
constructorCatchSwallowed(w, rec, error) ==
  Return(Logger(w, [rec EXCEPT !.threw = error]), Undefined)

\* catch (error) { log.threw = error; ...; options.logger(log); throw error; }
constructorCatch(w, rec, error) ==
  Throw(Logger(w, [rec EXCEPT !.threw = error]), error)

\* The replacement constructor after traceObject did t on the instance
\* original: the catch block, or the record with the identity and the return.
constructedId(i, t, log0, original) ==
  Return(Logger(i.w, [log0 EXCEPT !.instance = t.ret, !.instanceId = i.ret,
                                  !.result = Ref(original)]),
         t.ret)

constructed(t, log0, original, className, options) ==
  IF t.threw
    THEN constructorCatch(t.w, log0, t.ret)
    ELSE constructedId(getId(t.w, t.ret.r, className, options), t, log0, original)

\* The replacement constructor traceClass returned: new Replacement(...args),
\* while the original constructor throws or constructs an instance.
construct(w, options, args, throws, id) ==
  LET className == "C"
      log0 == NewLog(LogTypes.Constructor, Undefined, Undefined, className,
                     "", args, 0)
  IN
  IF throws
    THEN constructorCatch(w, log0, AppError(1))
    ELSE
      constructed(traceObject([w EXCEPT !.heap = Append(@, NativeInstance(id))],
                              Len(w.heap) + 1, options),
                  log0, Len(w.heap) + 1, className, options)

\* The application constructs through the replacement constructor that the
\* latest traceClass(C, ...) returned.
Construct(args, throws, id) ==
  /\ ops < MaxOps
  /\ shimmedClasses["C"] # <<>>
  /\ Len(heap) + 2 <= MaxObj
  /\ \E r \in {construct(World, shimmedClasses["C"][1], args, throws, id)} :
       /\ Commit(r.w)
       /\ twin' = ExtendTwin(r.w.heap)
       /\ last' = Observed("construct", Len(heap) + 1, "", args,
                           [threw |-> throws,
                            ret |-> IF throws THEN AppError(1)
                                    ELSE Ref(Len(heap) + 1),
                            marked |-> FALSE],
                           r, FALSE)
  /\ ops' = ops + 1
  /\ UNCHANGED <<promises, calls>>

\* No member of o carries a shim unless o carries the marker: o was not
\* given to traceMember, and no traceObject on it ended half-way.
Unshimmed(o) ==
  ~heap[o].marked => \A k \in Members : heap[o].shim[k].kind = "none"

\* The member k carries no shim, neither on o nor on its prototype.
MemberUnshimmed(o, k) ==
  /\ heap[o].shim[k].kind = "none"
  /\ heap[o].proto # 0 => heap[heap[o].proto].shim[k].kind = "none"

\* TraceAnything.traceObject(o, opts)
TraceObject(o, opts) ==
  /\ ops < MaxOps
  /\ Len(heap) + 1 <= MaxObj
  /\ \E r \in {traceObject(World, o, opts)} :
       /\ Commit(r.w)
       /\ twin' = ExtendTwin(r.w.heap)
       /\ last' = Observed("traceObject", o, "", <<>>, NoOriginal, r, heap[o].marked)
  /\ ops' = ops + 1
  /\ UNCHANGED <<promises, calls>>

\* Whether handling the outcome may need another object for a wrapper.
MayWrap(oc) == oc.t \in {"instance", "existing"} \/ oc.f = "instance"

Room(oc) == Len(heap) + Allocates(oc) + (IF MayWrap(oc) THEN 1 ELSE 0) <= MaxObj

\* The application calls t.m(...args); the original method produces oc.
Call(t, args, oc) ==
  LET sh == heap[t].shim["m"]
      call == Len(calls) + 1
      nextPromise == Len(promises) + 1
      shimmed == sh.kind = "method"
      orig == Original(World, oc, nextPromise)
  IN
  /\ ops < MaxOps
  /\ IsFunction(heap, t, "m")
  /\ Room(oc)
  /\ \E i \in {IF shimmed
                  THEN invokeShim(World, t, sh, args, oc, call, nextPromise)
                  ELSE Invoked(orig, NewLog("", Undefined, Undefined, "", "",
                                            <<>>, 0), FALSE)} :
       /\ Commit(i.w)
       /\ twin' = ExtendTwin(i.w.heap)
       /\ calls' = Append(calls,
            [this |-> t, args |-> args, kind |-> sh.kind, options |-> sh.options,
             origThrew |-> orig.threw, orig |-> orig.ret,
             threw |-> i.threw, ret |-> i.ret,
             log |-> i.log,
             returnValue |-> IF oc.t = "deferred" THEN nextPromise ELSE 0,
             promiseShim |-> IF oc.t = "deferred" /\ shimmed
                               THEN nextPromise + 1 ELSE 0,
             state |-> IF oc.t = "deferred" /\ shimmed THEN "pending" ELSE "done",
             logLen |-> Len(i.w.log)])
       /\ last' = Observed("call", t, "m", args, OriginalDid(orig),
                           [w |-> i.w, ret |-> i.ret, threw |-> i.threw],
                           heap[t].marked)
  /\ promises' = IF oc.t # "deferred" THEN promises
                 ELSE IF shimmed THEN promises \o <<Pending, Pending>>
                 ELSE Append(promises, Pending)
  /\ ops' = ops + 1

\* The deferred value an original method returned settles with outcome oc,
\* and the continuations of the shim run.
Settle(c, oc) ==
  LET cl == calls[c] IN
  /\ cl.state = "pending"
  /\ Room(oc)
  /\ \E r \in {continueShim(World, cl, oc)} :
       /\ Commit(r.w)
       /\ twin' = ExtendTwin(r.w.heap)
       /\ promises' = [promises EXCEPT
                         ![cl.returnValue] = [state |-> r.origState,
                                              value |-> r.origValue],
                         ![cl.promiseShim] = [state |-> r.state, value |-> r.value]]
       /\ last' = Observed("settle", c, "m", cl.args,
                           OriginalDid([threw |-> r.origState = "rejected",
                                        ret |-> r.origValue]),
                           [threw |-> r.state = "rejected", ret |-> r.value],
                           heap[cl.this].marked)
  /\ calls' = [calls EXCEPT ![c].state = "settled"]
  /\ UNCHANGED <<ops>>

\* The application reads t.k (a data member).
Read(t, k) ==
  /\ ops < MaxOps
  /\ \E r \in {getMember(World, t, k)} :
       /\ Commit(r.w)
       /\ last' = Observed("read", t, k, <<>>, NoOriginal, r, heap[t].marked)
  /\ ops' = ops + 1
  /\ UNCHANGED <<promises, calls, twin>>

\* Mutant of setProperty: the value is stored before the record is built
\* and emitted.
setPropertyStoredFirst(w, traced, k, value) ==
  propertyWritten(getId([w EXCEPT !.heap[traced].data[k] = value], traced,
                        w.heap[traced].shim[k].className,
                        w.heap[traced].shim[k].options),
                  traced, w.heap[traced].shim[k], k, value)

setProperty(w, traced, k, value) ==
  propertyWritten(getId(w, traced, w.heap[traced].shim[k].className,
                        w.heap[traced].shim[k].options),
                  traced, w.heap[traced].shim[k], k, value)

\* An assignment the object does not take (a member that is not writable, an
\* accessor without setter): strict code gets a TypeError, other code
\* nothing.
notWritten(w, value, strict) ==
  IF strict THEN Throw(w, TypeError) ELSE Return(w, value)

\* if (originalDescriptor.writable): the shim _shimProperty installed for a
\* plain stored value has a setter.
HasSetter(h, sh, k) == k \notin h[sh.object].fixed

\* this[k] = value, written by the application, whatever that member is
\* now: the setter where the lookup of k ends at an accessor (on this or
\* inherited), and if not a data property of this.
setMember(w, this, k, value, strict) ==
  LET holder == Holder(w.heap, this, k)
      sh == w.heap[holder].shim[k]
  IN
  CASE sh.kind = "property" ->
         IF HasSetter(w.heap, sh, k)
           THEN setProperty(w, holder, k, value)
           ELSE notWritten(w, value, strict)
    [] sh.kind = "accessor" -> setAccessor(w, holder, k, value)
    [] sh.kind = "silent" /\ IsAccessor(w.heap, sh.object, k) ->
         nativeSet(w, sh.object, k, value)
    [] sh.kind = "none" /\ IsAccessor(w.heap, holder, k) ->
         nativeSet(w, holder, k, value)
    [] OTHER ->
         IF k \in w.heap[this].fixed
           THEN notWritten(w, value, strict)
           ELSE Return([w EXCEPT !.heap[this].data[k] = value], value)

\* The application writes t.k = value, from strict code or not.  The
\* observation keeps, as the original's part, the value t.k held before.
Write(t, k, value) ==
  /\ ops < MaxOps
  /\ \E strict \in BOOLEAN :
       \E r \in {setMember(World, t, k, value, strict)} :
         /\ Commit(r.w)
         /\ last' = Observed("write", t, k, <<value>>,
                             [threw |-> FALSE, ret |-> ReadData(heap, t, k),
                              marked |-> FALSE],
                             IF r.threw THEN r ELSE Return(r.w, value),
                             heap[t].marked)
  /\ twin' = IF k \in heap[IF heap[t].object = 0 THEN t
                           ELSE heap[t].object].fixed
               THEN twin ELSE [twin EXCEPT ![t][k] = value]
  /\ ops' = ops + 1
  /\ UNCHANGED <<promises, calls>>

\* The deferred value p, held by a member of an application object,
\* settles: fulfilled with value or rejected with it.
SettleProperty(p, state, value) ==
  /\ promises[p].state = "pending"
  /\ promises' = [promises EXCEPT ![p] = [state |-> state, value |-> value]]
  /\ last' = Observed("settleProperty", 0, "", <<>>,
                      [threw |-> state = "rejected", ret |-> value,
                       marked |-> FALSE],
                      [w |-> World, threw |-> state = "rejected", ret |-> value],
                      FALSE)
  /\ UNCHANGED <<heap, log, nextGeneratedId, shimmedClasses, calls, twin, ops>>

\* The Event record of a callback of _shimPromiseProperty, with the
\* identity id, for the deferred value as it settled (settled).
promiseLog(traced, id, sh, k, settled) ==
  [NewLog(LogTypes.Event, Ref(traced), id, sh.className,
          k \o (IF settled.state = "fulfilled" THEN " Promise resolved"
                ELSE " Promise rejected"),
          <<>>, 0)
     EXCEPT !.result = IF settled.state = "fulfilled" THEN settled.value
                       ELSE Absent,
            !.threw = IF settled.state = "rejected" THEN settled.value
                      ELSE Absent]

\* Whichever callback of _shimPromiseProperty matches the settlement runs;
\* i is what _getId did while the record was built.
reacted(i, traced, k, settled) ==
  IF i.threw
    THEN i
    ELSE Return(Logger(i.w, promiseLog(traced, i.ret, i.w.heap[traced].shim[k],
                                       k, settled)),
                Undefined)

reactToPromise(w, traced, k, settled) ==
  reacted(getId(w, traced, w.heap[traced].shim[k].className,
                w.heap[traced].shim[k].options),
          traced, k, settled)

\* A callback _shimPromiseProperty registered for member k of traced runs,
\* the deferred value having settled.
React(traced, k) ==
  /\ heap[traced].shim[k].kind = "promise"
  /\ promises[heap[heap[traced].shim[k].object].data[k].r].state # "pending"
  /\ \E r \in {reactToPromise(World, traced, k,
                   promises[heap[heap[traced].shim[k].object].data[k].r])} :
       /\ log' = r.w.log
       /\ nextGeneratedId' = r.w.nextGeneratedId
       /\ heap' = [r.w.heap EXCEPT ![traced].shim[k].kind = "promised"]
       /\ last' = Observed("react", traced, k, <<>>, NoOriginal, r,
                           heap[traced].marked)
  /\ UNCHANGED <<shimmedClasses, promises, calls, twin, ops>>

\* The application assigns t.onxchange = listener.
Listen(t, listener) ==
  LET sh == heap[t].shim["onxchange"]
      w == IF sh.kind = "listener"
             THEN setEventListenerProperty(World, sh, listener)
             ELSE setMember(World, t, "onxchange", listener, TRUE).w
  IN
  /\ ops < MaxOps
  /\ sh.kind = "none" => IsNativeTarget(heap, t)
  /\ Commit(w)
  /\ last' = Observed("listen", t, "onxchange", <<listener>>, NoOriginal,
                      Return(World, listener), heap[t].marked)
  /\ ops' = ops + 1
  /\ UNCHANGED <<promises, calls, twin>>

\* The application calls t.addEventListener(eventName, listener).
AddEventListener(t, eventName, listener) ==
  LET r == addEventListener(World, t, eventName, listener) IN
  /\ ops < MaxOps
  /\ IsFunction(heap, t, "addEventListener")
  /\ Commit(r.w)
  /\ last' = Observed("addEventListener", t, eventName, <<listener>>,
                      NoOriginal, r, heap[t].marked)
  /\ ops' = ops + 1
  /\ UNCHANGED <<promises, calls, twin>>

\* The event eventName fires on the event target o.
Fire(o, eventName) ==
  /\ ops < MaxOps
  /\ IsNativeTarget(heap, o)
  /\ \E r \in {callListeners(World, ListenersOf(heap, o, eventName), <<>>)} :
       /\ Commit(r.w)
       /\ last' = Observed("fire", o, eventName, <<>>, NoOriginal,
                           Return(r.w, [k |-> "fired", r |-> 0,
                                        returns |-> r.returns]),
                           heap[o].marked)
  /\ ops' = ops + 1
  /\ UNCHANGED <<promises, calls, twin>>

\* The objects that hold a function traceMember or tracePrototype returned
\* without installing it (inPlace false).
Detached ==
  {h \in 1..Len(heap) : /\ heap[h].cls = "Object" /\ ~heap[h].marked
                        /\ heap[h].proto = 0 /\ heap[h].shim["m"].kind # "none"}

\* TraceAnything.tracePrototype(C, k, opts)
TracePrototype(prototype, k, opts) ==
  /\ ops < MaxSteps
  /\ Len(heap) + 1 <= MaxObj
  /\ \E r \in {tracePrototype(World, prototype, k, opts)} :
       /\ Commit(r.w)
       /\ twin' = ExtendTwin(r.w.heap)
       /\ last' = Observed("tracePrototype", prototype, k, <<>>, NoOriginal, r, FALSE)
  /\ ops' = ops + 1
  /\ UNCHANGED <<promises, calls>>

\* TraceAnything.traceMember(o, k, opts)
TraceMember(o, k, opts) ==
  /\ ops < MaxSteps
  /\ Len(heap) + 1 <= MaxObj
  /\ \E r \in {traceMember(World, o, k, opts)} :
       /\ Commit(r.w)
       /\ twin' = ExtendTwin(r.w.heap)
       /\ last' = Observed("traceMember", o, k, <<>>, NoOriginal, r, FALSE)
  /\ ops' = ops + 1
  /\ UNCHANGED <<promises, calls>>

\* The application calls the function m found on h with t as this: t.m()
\* where h is where the lookup of t.m ends, fn.call(t) for a function fn that
\* traceMember or tracePrototype returned.  The original method returns
\* undefined.
Invoke(t, h) ==
  LET sh == heap[h].shim["m"] IN
  /\ ops < MaxSteps
  /\ h \in {Holder(heap, t, "m")} \cup Detached
  /\ \E r \in {IF sh.kind = "method"
                  THEN invokeShim(World, t, sh, <<>>,
                                  Outcome("undefined", "", 0), 0,
                                  Len(promises) + 1)
                  ELSE Invoked(Return(World, Undefined),
                               NewLog("", Undefined, Undefined, "", "", <<>>, 0),
                               FALSE)} :
       /\ Commit(r.w)
       /\ last' = Observed("invoke", t, "m", <<>>, NoOriginal,
                           [threw |-> r.threw, ret |-> r.ret], FALSE)
  /\ ops' = ops + 1
  /\ UNCHANGED <<promises, calls, twin>>

\* The application assigns t.k = value, for an object t with a prototype in
\* the heap: the setter of the shim where the lookup of k ends at one (on t
\* or inherited), and if not a data property of t's own.
Assign(t, k, value) ==
  LET w == setMember(World, t, k, value, TRUE).w IN
  /\ ops < MaxSteps
  /\ Commit(w)
  /\ twin' = [twin EXCEPT ![t][k] = value]
  /\ last' = Observed("assign", t, k, <<value>>, NoOriginal,
                      Return(World, value), FALSE)
  /\ ops' = ops + 1
  /\ UNCHANGED <<promises, calls>>

\* The operations, by kind.  The application works with the objects the
\* engine handed it as instrumented.
Constructs ==
  \E args \in ArgLists, throws \in BOOLEAN, id \in {Absent, Prim(7)} :
     Construct(args, throws, id)

Calls ==
  \E t \in Traced, args \in ArgLists, oc \in Outcomes(heap) : Call(t, args, oc)

Settles == \E c \in 1..Len(calls), oc \in SettledOutcomes(heap) : Settle(c, oc)

Reads == \E t \in Traced, k \in AccessedMembers : Read(t, k)

Writes ==
  \E t \in Traced, k \in AccessedMembers, value \in WriteValues :
     Write(t, k, value)

\* Method calls on objects given to traceObject, with a class registered.
Next ==
  \/ \E opts \in RegistryOverrides : TraceClass(opts)
  \/ \E o \in 1..Len(heap), opts \in CallOverrides :
       Unshimmed(o) /\ TraceObject(o, opts)
  \/ Calls
  \/ Settles

Spec == Init /\ [][Next]_vars

\* Construction through the replacement constructor of traceClass.
NextClass ==
  \/ \E opts \in ClassOverrides : TraceClass(opts)
  \/ Constructs
  \/ Calls

SpecClass == Init /\ [][NextClass]_vars

\* Reads, writes and calls of the members of objects given to traceObject.
NextMembers ==
  \/ \E o \in 1..Len(heap), opts \in MemberOverrides :
       Unshimmed(o) /\ TraceObject(o, opts)
  \/ Reads
  \/ Writes
  \/ Calls

SpecMembers == Init /\ [][NextMembers]_vars

\* An event target as the application built it: x, the listener property
\* onxchange and addEventListener; the members in fixed are neither
\* configurable nor writable.
NativeTarget(fixed) ==
  [NewObject("T", [x |-> Prim(0), id |-> Absent, f |-> Absent])
     EXCEPT !.fixed = fixed]

InitTarget(fixedSets) ==
  /\ \E fixed \in fixedSets : heap = <<NativeTarget(fixed)>>
  /\ log = <<>>
  /\ nextGeneratedId = [c \in ClassNames |-> 0]
  /\ shimmedClasses = [c \in ClassNames |-> <<>>]
  /\ promises = <<>>
  /\ calls = <<>>
  /\ twin = <<heap[1].data>>
  /\ last = Observed("init", 0, "", <<>>, NoOriginal, Return(World, Undefined), FALSE)
  /\ ops = 0

Listeners == {Listener(1)}

Listens == \E t \in Traced, l \in Listeners \cup {Null} : Listen(t, l)

AddsEventListener ==
  \E t \in Traced, n \in EventNames, l \in Listeners : AddEventListener(t, n, l)

Fires == \E o \in 1..Len(heap), n \in EventNames : Fire(o, n)

\* The option objects for event targets, without idProperty.
EventOverrides ==
  { [inPlace |-> ip, methods |-> me, eventProperties |-> ep, idProperty |-> ""] :
       ip \in BOOLEAN, me \in BOOLEAN, ep \in {{}, {<<"foo", "x">>}} }

\* Instrumented event targets: writes, listeners and firings.
NextEvents ==
  \/ \E o \in 1..Len(heap), opts \in EventOverrides :
       Unshimmed(o) /\ TraceObject(o, opts)
  \/ Writes
  \/ Listens
  \/ AddsEventListener
  \/ Fires

SpecEvents == InitTarget({{}}) /\ [][NextEvents]_vars

\* The option objects with forced and skipped events, for targets that may
\* have a member that cannot be reconfigured.
ForcedOverrides ==
  { [inPlace |-> ip, methods |-> me, extraEvents |-> ee, skipEvents |-> se] :
       ip \in BOOLEAN, me \in BOOLEAN, ee \in {<<>>, <<"foo">>},
       se \in {{}, {"0"}, {"xchange"}} }

FixedSets == {{}, {"x"}, {"onxchange"}, {"addEventListener"}}

NextForced ==
  \/ \E o \in 1..Len(heap), opts \in ForcedOverrides :
       Unshimmed(o) /\ TraceObject(o, opts)
  \/ Listens
  \/ AddsEventListener
  \/ Fires

SpecForced == InitTarget(FixedSets) /\ [][NextForced]_vars

(***************************************************************************)
(* The claims.                                                             *)
(***************************************************************************)

\* The Method records emitted for invocation c.
MethodRecords(c) ==
  {i \in 1..Len(log) : log[i].type = LogTypes.Method /\ log[i].call = c}

\* The Constructor records the latest operation emitted.
ConstructorRecords ==
  {i \in (last.logLen + 1)..Len(log) : log[i].type = LogTypes.Constructor}

\* Invocation c went through the function _shimMethod installed.
ShimmedCall(c) == calls[c].kind = "method"

\* Invocation c is a shimmed call whose original returned a deferred value.
DeferredCall(c) ==
  ShimmedCall(c) /\ ~calls[c].origThrew /\ calls[c].orig.k = "deferred"

\* C1: traceObject on an object that carries the marker returns the same
\* reference and changes nothing: no shim installed, no identity assigned,
\* no record emitted, whatever the options.
C1_Idempotence ==
  [][(last'.op = "traceObject" /\ last'.marked)
       => /\ ~last'.threw
          /\ last'.ret = Ref(last'.object)
          /\ heap' = heap
          /\ log' = log
          /\ nextGeneratedId' = nextGeneratedId]_vars

\* C1 witness: traceObject has been called on a marked object.
C1_Witness == last.op = "traceObject" /\ last.marked

\* The caller of the latest shimmed result received v: v itself, or the
\* instrumented object the propagator made of the object v.
Received(v, ret) ==
  \/ ret = v
  \/ /\ v.k = "object"
     /\ ret.k = "object"
     /\ heap[ret.r].marked
     /\ heap[ret.r].object = v.r

\* C2 (as claimed): every shimmed call whose original returned a value v
\* that is not deferred (null, undefined and primitives included) emitted
\* exactly one Method record, with the call's args, result = v and no threw,
\* and the caller received v.
C2_MethodCallLogged ==
  \A c \in 1..Len(calls) :
    (ShimmedCall(c) /\ ~calls[c].origThrew /\ calls[c].orig.k # "deferred")
      => /\ Cardinality(MethodRecords(c)) = 1
         /\ \A i \in MethodRecords(c) :
              /\ log[i].args = calls[c].args
              /\ log[i].result = calls[c].orig
              /\ log[i].threw = Absent
         /\ ~calls[c].threw
         /\ Received(calls[c].orig, calls[c].ret)

\* C3: every shimmed call whose original threw E threw the same E to the
\* caller and emitted exactly one Method record, with threw = E and no
\* result.
C3_ExceptionPropagated ==
  \A c \in 1..Len(calls) :
    (ShimmedCall(c) /\ calls[c].origThrew)
      => /\ calls[c].threw
         /\ calls[c].ret = calls[c].orig
         /\ Cardinality(MethodRecords(c)) = 1
         /\ \A i \in MethodRecords(c) :
              log[i].threw = calls[c].orig /\ log[i].result = Absent

\* C3 witness: the original of a shimmed call threw.
C3_Witness == \E c \in 1..Len(calls) : ShimmedCall(c) /\ calls[c].origThrew

\* C4 (as claimed): with logAsyncResultsImmediately = false, a shimmed call
\* that returned a deferred value has no Method record while the value is
\* pending and exactly one once it settled: with result = the propagated
\* value and no threw on success, with threw = the failure and no result on
\* failure.
C4_DeferredLogging ==
  \A c \in 1..Len(calls) :
    (DeferredCall(c) /\ ~calls[c].options.logAsyncResultsImmediately)
      => /\ calls[c].state = "pending" => MethodRecords(c) = {}
         /\ calls[c].state = "settled" =>
              /\ Cardinality(MethodRecords(c)) = 1
              /\ \A i \in MethodRecords(c) :
                   IF promises[calls[c].returnValue].state = "fulfilled"
                     THEN /\ log[i].result = promises[calls[c].promiseShim].value
                          /\ promises[calls[c].promiseShim].state = "fulfilled"
                          /\ log[i].threw = Absent
                     ELSE /\ log[i].threw = promises[calls[c].returnValue].value
                          /\ log[i].result = Absent

\* C5: with logAsyncResultsImmediately = true, a shimmed call that returned
\* a deferred value has exactly one Method record, the one emitted when the
\* call returned, with result = the raw deferred value and no threw, while
\* the value is pending and after it settled either way.
C5_ImmediateLogging ==
  \A c \in 1..Len(calls) :
    (DeferredCall(c) /\ calls[c].options.logAsyncResultsImmediately)
      => /\ MethodRecords(c) = {calls[c].logLen}
         /\ log[calls[c].logLen].result = Deferred(calls[c].returnValue)
         /\ log[calls[c].logLen].threw = Absent
         /\ log[calls[c].logLen].args = calls[c].args

\* C5 witness: such a call's deferred value has settled.
C5_Witness ==
  \E c \in 1..Len(calls) :
    /\ DeferredCall(c)
    /\ calls[c].options.logAsyncResultsImmediately
    /\ calls[c].state = "settled"

\* C6 (as claimed): once the original deferred value of a shimmed call has
\* settled, the deferred value the caller holds has settled the same way,
\* with the original failure when it failed.
C6_OutcomePreserved ==
  \A c \in 1..Len(calls) :
    (DeferredCall(c) /\ calls[c].state = "settled")
      => /\ promises[calls[c].promiseShim].state
              = promises[calls[c].returnValue].state
         /\ promises[calls[c].returnValue].state = "rejected"
              => promises[calls[c].promiseShim].value
                   = promises[calls[c].returnValue].value

\* C7 (as claimed): when the original constructor does not throw, the
\* replacement constructor returns the instrumented instance and emits
\* exactly one Constructor record, with the call's args and result = that
\* instrumented instance.
C7_ConstructorSuccess ==
  (last.op = "construct" /\ ~last.origThrew)
    => /\ ~last.threw
       /\ last.ret.k = "object"
       /\ heap[last.ret.r].marked
       /\ Cardinality(ConstructorRecords) = 1
       /\ \A i \in ConstructorRecords :
            log[i].args = last.args /\ log[i].result = last.ret

\* C8: when the original constructor throws E, the replacement constructor
\* throws the same E and emits exactly one Constructor record, with threw = E
\* and no result, and no object is produced.
C8_ConstructorFailure ==
  (last.op = "construct" /\ last.origThrew)
    => /\ last.threw
       /\ last.ret = last.orig
       /\ Cardinality(ConstructorRecords) = 1
       /\ \A i \in ConstructorRecords :
            /\ log[i].threw = last.orig
            /\ log[i].result = Absent
            /\ log[i].args = last.args
       /\ Len(log) = last.logLen + 1
       /\ Len(heap) = last.heapLen

\* C8 witness: the original constructor threw.
C8_Witness == last.op = "construct" /\ last.origThrew

\* The latest operation handed a value an original method produced (by a
\* synchronous return or by a successful settlement) through a shim.
ShimmedResult ==
  /\ ~last.origThrew
  /\ \/ last.op = "call" /\ ShimmedCall(Len(calls))
     \/ last.op = "settle"

\* C9: when C is registered and the original result of a shimmed method is
\* an instance of C without the marker, the caller gets an object of class C
\* that carries the marker, was built over that instance and was
\* instrumented with the registered options.
C9_RecursiveInstrumentation ==
  (/\ ShimmedResult
   /\ shimmedClasses["C"] # <<>>
   /\ last.orig.k = "object"
   /\ heap[last.orig.r].cls = "C"
   /\ ~last.origMarked)
    => /\ ~last.threw
       /\ last.ret.k = "object"
       /\ heap[last.ret.r].marked
       /\ heap[last.ret.r].cls = "C"
       /\ heap[last.ret.r].object = last.orig.r
       /\ heap[last.ret.r].options = shimmedClasses["C"][1]

\* C9 witness: a shimmed method's deferred value settled with an instance of
\* the registered class C built outside the engine, and the consumer got a
\* wrapper.
C9_Witness ==
  /\ last.op = "settle"
  /\ ~last.origThrew
  /\ shimmedClasses["C"] # <<>>
  /\ last.orig.k = "object"
  /\ heap[last.orig.r].cls = "C"
  /\ ~last.origMarked
  /\ last.ret # last.orig

\* Member k of the instrumented object t is not selected for logging.
NotSelected(t, k) ==
  \/ k \in heap[t].options.skipProperties
  \/ k = "m" /\ ~heap[t].options.methods
  \/ k \in DataMembers /\ ~heap[t].options.properties

\* C10 (as claimed): a read, write or call of a member not selected for
\* logging gives on the instrumented object what the same sequence gives on
\* the original (the twin), and emits no record.
C10_Passthrough ==
  (last.marked /\ last.member # "" /\ NotSelected(last.object, last.member))
    => /\ Len(log) = last.logLen
       /\ last.op = "read" =>
            last.ret = (IF twin[last.object][last.member] = Absent
                          THEN Undefined ELSE twin[last.object][last.member])
       /\ last.op = "write" =>
            heap[last.object].data[last.member] = twin[last.object][last.member]
       /\ last.op = "call" =>
            last.threw = last.origThrew /\ last.ret = last.orig

\* The Event records the latest operation emitted.
EventRecords ==
  {i \in (last.logLen + 1)..Len(log) : log[i].type = LogTypes.Event}

\* The instrumented objects that stand for the object o.
InstrumentedFor(o) == {t \in Traced : heap[t].object = o}

\* The instrumented object t has a member correlated with the event: x, by
\* the name heuristic for xchange or by eventProperties.
Correlated(t, eventName) ==
  \/ <<eventName, "x">> \in heap[t].options.eventProperties
  \/ eventName = "xchange" /\ HasProperty(heap, t, "x")

\* C11 (as claimed): when an event fires on an instrumented event target,
\* every Event record emitted carries, for an event with a correlated member,
\* the value that reading the member on the instrumented object yields now.
C11_EventCorrelation ==
  (last.op = "fire" /\ InstrumentedFor(last.object) # {})
    => \A i \in EventRecords :
         \E t \in InstrumentedFor(last.object) :
           Correlated(t, log[i].name) => log[i].value = ReadData(heap, t, "x")

\* A class C whose members m and x are on its prototype, with two instances.
Prototype == NewObject("C", [x |-> Prim(0), id |-> Absent, f |-> Absent])

InstanceOf(prototype) == [NewObject("C", NoData) EXCEPT !.proto = prototype]

InitPrototype ==
  /\ heap = <<Prototype, InstanceOf(1), InstanceOf(1)>>
  /\ log = <<>>
  /\ nextGeneratedId = [c \in ClassNames |-> 0]
  /\ shimmedClasses = [c \in ClassNames |-> <<>>]
  /\ promises = <<>>
  /\ calls = <<>>
  /\ twin = <<heap[1].data, heap[1].data, heap[1].data>>
  /\ last = Observed("init", 0, "", <<>>, NoOriginal, Return(World, Undefined), FALSE)
  /\ ops = 0

Prototypes == {o \in 1..Len(heap) : \E t \in 1..Len(heap) : heap[t].proto = o}

Instances == {t \in 1..Len(heap) : heap[t].proto # 0}

PrototypeOverrides == { [inPlace |-> ip] : ip \in BOOLEAN }

PrototypeMembers == {"m", "x"}

\* tracePrototype and traceMember, and calls and writes on the instances.
NextPrototype ==
  \/ \E o \in Prototypes, k \in PrototypeMembers, opts \in PrototypeOverrides :
       MemberUnshimmed(o, k) /\ TracePrototype(o, k, opts)
  \/ \E t \in Instances, k \in PrototypeMembers, opts \in PrototypeOverrides :
       MemberUnshimmed(t, k) /\ TraceMember(t, k, opts)
  \/ \E t \in Instances, h \in 1..Len(heap) : Invoke(t, h)
  \/ \E t \in Instances, value \in WriteValues : Assign(t, "x", value)

SpecPrototype == InitPrototype /\ [][NextPrototype]_vars

\* Instrumentation in place, of members and objects that may carry shims
\* already.
LayeredOverrides == { [inPlace |-> TRUE, methods |-> me] : me \in BOOLEAN }

\* tracePrototype, traceMember and traceObject in place, in any order and
\* repeated, then calls, reads and writes on the instances.
NextLayered ==
  \/ \E o \in Prototypes, k \in PrototypeMembers, opts \in LayeredOverrides :
       ops < MaxOps /\ TracePrototype(o, k, opts)
  \/ \E t \in Instances, k \in PrototypeMembers, opts \in LayeredOverrides :
       ops < MaxOps /\ TraceMember(t, k, opts)
  \/ \E t \in Instances, opts \in LayeredOverrides : TraceObject(t, opts)
  \/ \E t \in Instances : Invoke(t, Holder(heap, t, "m"))
  \/ \E t \in Instances : Read(t, "x")
  \/ \E t \in Instances, value \in WriteValues : Assign(t, "x", value)

SpecLayered == InitPrototype /\ [][NextLayered]_vars

\* The event subsystem switched off, with and without forced events.
UngatedOverrides ==
  { [events |-> FALSE, inPlace |-> ip, methods |-> me, extraEvents |-> ee] :
       ip \in BOOLEAN, me \in BOOLEAN, ee \in {<<>>, <<"foo">>} }

NextUngated ==
  \/ \E o \in 1..Len(heap), opts \in UngatedOverrides :
       Unshimmed(o) /\ TraceObject(o, opts)
  \/ Listens
  \/ AddsEventListener
  \/ Fires

SpecUngated == InitTarget({{}}) /\ [][NextUngated]_vars

\* An instance whose member x is a plain stored value, writable or not.
InitStored ==
  /\ \E id \in {Absent, Prim(7)}, fixed \in {{}, {"x"}} :
       heap = <<[NativeInstance(id) EXCEPT !.fixed = fixed]>>
  /\ log = <<>>
  /\ nextGeneratedId = [c \in ClassNames |-> 0]
  /\ shimmedClasses = [c \in ClassNames |-> <<>>]
  /\ promises = <<>>
  /\ calls = <<>>
  /\ twin = <<heap[1].data>>
  /\ last = Observed("init", 0, "", <<>>, NoOriginal, Return(World, Undefined), FALSE)
  /\ ops = 0

StoredOverrides ==
  { [inPlace |-> ip, properties |-> pr] : ip \in BOOLEAN, pr \in BOOLEAN }

StoredValues == {Prim(1), Prim(2)}

\* traceObject, then reads and writes of the members.
NextStored ==
  \/ \E o \in 1..Len(heap), opts \in StoredOverrides :
       Unshimmed(o) /\ TraceObject(o, opts)
  \/ Reads
  \/ \E t \in Traced, k \in AccessedMembers, value \in StoredValues :
       Write(t, k, value)

SpecStored == InitStored /\ [][NextStored]_vars

\* An instance whose member x holds a deferred value, still pending.
InitPromise ==
  /\ \E id \in {Absent, Prim(7)} :
       heap = <<NewObject("C", [x |-> Deferred(1), id |-> id, f |-> Absent])>>
  /\ log = <<>>
  /\ nextGeneratedId = [c \in ClassNames |-> 0]
  /\ shimmedClasses = [c \in ClassNames |-> <<>>]
  /\ promises = <<Pending>>
  /\ calls = <<>>
  /\ twin = <<heap[1].data>>
  /\ last = Observed("init", 0, "", <<>>, NoOriginal, Return(World, Undefined), FALSE)
  /\ ops = 0

PromiseOverrides ==
  { [inPlace |-> ip, properties |-> pr, treatPromisePropertiesAsEvents |-> tp] :
       ip \in BOOLEAN, pr \in BOOLEAN, tp \in BOOLEAN }

\* traceObject and traceMember on an object with a deferred member, reads of
\* the member, the settlement of the deferred value and the callbacks.
NextPromise ==
  \/ \E o \in 1..Len(heap), opts \in PromiseOverrides :
       Unshimmed(o) /\ TraceObject(o, opts)
  \/ \E o \in 1..Len(heap), opts \in PromiseOverrides :
       /\ ops < MaxOps /\ heap[o].object = 0 /\ MemberUnshimmed(o, "x")
       /\ TraceMember(o, "x", opts)
  \/ Reads
  \/ \E p \in 1..Len(promises) :
       \/ SettleProperty(p, "fulfilled", Prim(1))
       \/ SettleProperty(p, "rejected", AppError(1))
  \/ \E t \in 1..Len(heap) : React(t, "x")

SpecPromise == InitPromise /\ [][NextPromise]_vars

\* A plain object with the members x and id, those in accessors being
\* native accessors; x is the value of x, or the value its accessor closes
\* over.
AccessorObject(accessors, x) ==
  [NewObject("Object", [x |-> x, id |-> Prim(7), f |-> Absent])
     EXCEPT !.accessors = accessors]

AccessorShapes == {{"x"}, {"id"}, {"x", "id"}}

InitAccessor ==
  /\ \E accessors \in AccessorShapes, x \in {Prim(1), Null} :
       heap = <<AccessorObject(accessors, x)>>
  /\ log = <<>>
  /\ nextGeneratedId = [c \in ClassNames |-> 0]
  /\ shimmedClasses = [c \in ClassNames |-> <<>>]
  /\ promises = <<>>
  /\ calls = <<>>
  /\ twin = <<heap[1].data>>
  /\ last = Observed("init", 0, "", <<>>, NoOriginal, Return(World, Undefined), FALSE)
  /\ ops = 0

AccessorOverrides ==
  { [inPlace |-> ip, properties |-> pr, idProperty |-> idp] :
       ip \in BOOLEAN, pr \in BOOLEAN, idp \in {"id", ""} }

AccessorValues == {Prim(0), Prim(2)}

\* The objects the application holds: its own, and the wrappers traceObject
\* returned (on those the identity lookup that ends traceObject succeeded).
Held ==
  {t \in 1..Len(heap) :
     \/ heap[t].object \in {0, t}
     \/ /\ heap[t].marked
        /\ ~getId(World, t, heap[t].cls, heap[t].options).threw}

\* traceObject and traceMember on objects with native accessors, and reads
\* and writes of their members.
NextAccessor ==
  \/ \E o \in Held, opts \in AccessorOverrides :
       Unshimmed(o) /\ TraceObject(o, opts)
  \/ \E o \in Held, k \in AccessedMembers, opts \in AccessorOverrides :
       ops < MaxOps /\ MemberUnshimmed(o, k) /\ TraceMember(o, k, opts)
  \/ \E t \in Held, k \in AccessedMembers : Read(t, k)
  \/ \E t \in Held, k \in AccessedMembers, value \in AccessorValues :
       Write(t, k, value)

SpecAccessor == InitAccessor /\ [][NextAccessor]_vars

\* The log records that name the object o as their instance.
RecordsOf(o) == {i \in 1..Len(log) : log[i].instance = Ref(o)}

\* C12: without idProperty, every log record that names an instance carries
\* the identity the instance was given at its first lookup, which is the one
\* it still holds; so all records of one instance carry the same identity.
C12_IdentityStability ==
  \A o \in DOMAIN heap :
    /\ \A i \in RecordsOf(o) : log[i].instanceId = heap[o].genId
    /\ \A i, j \in RecordsOf(o) : log[i].instanceId = log[j].instanceId

\* An instrumented object named by two records of different types, the later
\* one emitted by the latest operation.
C12_Witness ==
  \E o \in Traced :
    \E i, j \in RecordsOf(o) :
      /\ i <= last.logLen /\ last.logLen < j
      /\ log[i].type # log[j].type
      /\ heap[o].options.idProperty = ""

\* The log records that carry a generated identity.
GeneratedRecords ==
  {i \in 1..Len(log) : \E c \in ClassNames, n \in 1..(MaxSteps + 1) :
                          log[i].instanceId = GeneratedId(c, n)}

\* C13 (as claimed): two records that name distinct instances of one class,
\* each with a generated identity, carry different identities.
C13_DistinctIdentities ==
  \A i, j \in GeneratedRecords :
    (/\ log[i].instance # log[j].instance
     /\ log[i].instance.r \in Instances /\ log[j].instance.r \in Instances
     /\ log[i].className = log[j].className)
      => log[i].instanceId # log[j].instanceId

\* C14 (as claimed): the identity reported for an instance in a log record
\* equals the one reported for it in every earlier record, whatever the
\* configuration.
C14_IdentityImmutability ==
  \A i, j \in 1..Len(log) :
    (i < j /\ log[i].instance.k = "object" /\ log[i].instance = log[j].instance)
      => log[j].instanceId = log[i].instanceId

\* C15 (as claimed, its second half): every object that traceObject has
\* processed carries the marker afterwards, with inPlace true and false.
C15_MarkerInvariant ==
  (last.op = "traceObject" /\ ~last.threw) => heap[last.object].marked

\* C16 (as claimed): a call, read or write on a member of an instrumented
\* object raises an error to its caller if and only if the original
\* operation raised one, and then the same error.
C16_NoErrorIntroduced ==
  (last.op \in {"call", "read", "write"} /\ last.marked)
    => /\ last.threw = last.origThrew
       /\ last.threw => last.ret = last.orig

\* The Warning records traceObject emitted for the member k of class cls.
WarningsFor(k, cls) ==
  {i \in (last.logLen + 1)..Len(log) :
     log[i].type = LogTypes.Warning /\ log[i].message = <<k, cls>>}

\* C17 (as claimed): traceObject in place on an object with members that
\* cannot be replaced does not throw, emits exactly one Warning record for
\* each such member and leaves the member without a shim.
C17_CapabilityFailures ==
  (/\ last.op = "traceObject" /\ ~last.marked
   /\ Len(heap) = last.heapLen
   /\ heap[last.object].fixed # {})
    => /\ ~last.threw
       /\ \A k \in heap[last.object].fixed :
            /\ Cardinality(WarningsFor(k, heap[last.object].cls)) = 1
            /\ heap[last.object].shim[k].kind = "none"

\* The entries of the target's registered listeners that are logging
\* listeners for the event n.
LoggingListeners(target, n) ==
  {i \in 1..Len(heap[target].registered) :
     /\ heap[target].registered[i][1] = n
     /\ heap[target].registered[i][2].k = "shim"}

\* C18 (as claimed): after traceObject, every event name listed in
\* extraEvents is in the observed-event-name set of the instrumented object,
\* and exactly one logging listener around a no-op is registered under
\* that name.
C18_ForcedEvents ==
  (last.op = "traceObject" /\ ~last.threw /\ ~last.marked)
    => LET t == last.ret.r
           extra == heap[t].options.extraEvents
       IN  \A j \in 1..Len(extra) :
             /\ extra[j] \in heap[t].events
             /\ Cardinality(LoggingListeners(last.object, extra[j])) = 1
             /\ \A i \in LoggingListeners(last.object, extra[j]) :
                  heap[last.object].registered[i][2].listener = Noop

\* The object a log record's instance stands for.
Underlying(o) == IF heap[o].object = 0 THEN o ELSE heap[o].object

\* C19 (as claimed): an event name in skipEvents is never in the
\* observed-event-name set of the instrumented object, no logging listener
\* built with these options is registered for it, and every Event record
\* names an event that some instrumented object of its instance does not skip.
C19_SkipEvents ==
  /\ \A t \in Traced : \A n \in heap[t].options.skipEvents :
       /\ n \notin heap[t].events
       /\ \A i \in LoggingListeners(heap[t].object, n) :
            heap[heap[t].object].registered[i][2].options # heap[t].options
  /\ \A i \in 1..Len(log) :
       log[i].type = LogTypes.Event
         => \E t \in InstrumentedFor(Underlying(log[i].instance.r)) :
              log[i].name \notin heap[t].options.skipEvents

\* C20 (as claimed, its upper bound): a firing of an event on a target that
\* has been handed to the engine, once or more than once, emits no more than
\* one Event record for that event.
C20_ObservedOnce ==
  (last.op = "fire" /\ InstrumentedFor(last.object) # {})
    => Cardinality({i \in EventRecords : log[i].name = last.member}) <= 1

\* C21 (as claimed): for a shimmed call whose original returned a value that
\* is neither deferred nor null nor undefined, and that returned to its
\* caller, the Method record's result is the very value the caller received.
C21_ResultAfterPropagation ==
  \A c \in 1..Len(calls) :
    (/\ ShimmedCall(c) /\ ~calls[c].origThrew /\ ~calls[c].threw
     /\ calls[c].orig.k # "deferred"
     /\ calls[c].orig \notin {Null, Undefined})
      => \A i \in MethodRecords(c) : log[i].result = calls[c].ret

\* The application listener at the core of a listener: what a chain of
\* functions of _shimEventListener forwards to.
RECURSIVE UserListener(_)
UserListener(l) == IF l.k = "shim" THEN UserListener(l.listener) ELSE l

\* The listeners the target of the last firing called.
Fired == ListenersOf(heap, last.object, last.member)

\* What an application listener returns.
ReturnOf(l) == IF l = Noop THEN Undefined ELSE Prim(l.r)

\* The last operation assigned to a listener property that is instrumented.
ListenedThroughShim ==
  /\ last.op = "listen"
  /\ heap[last.object].shim["onxchange"].kind = "listener"

\* C22 (as claimed): when a Listener Wrapper is invoked its Event record is
\* emitted before the user listener runs, and the wrapper returns what the
\* user listener returns; assigning to an instrumented listener property
\* leaves a wrapper installed, around a no-op when the value is falsy, and
\* only the user listeners installed at the firing are invoked.
C22_ListenerWrapper ==
  /\ last.op = "fire" =>
       /\ \A h \in 1..Len(last.heard) :
            /\ last.heard[h].wrapped =>
                 \E i \in (last.logLen + 1)..last.heard[h].logLen :
                   log[i].type = LogTypes.Event /\ log[i].name = last.member
            /\ \E j \in 1..Len(Fired) :
                 UserListener(Fired[j]) = last.heard[h].listener
       /\ \A j \in 1..Len(Fired) :
            /\ last.ret.returns[j] = ReturnOf(UserListener(Fired[j]))
            /\ Fired[j].k = "shim" =>
                 \E i \in (last.logLen + 1)..Len(log) :
                   /\ log[i].type = LogTypes.Event
                   /\ log[i].name = last.member
  /\ ListenedThroughShim =>
       LET on == heap[heap[last.object].shim["onxchange"].object].on IN
       /\ on.k = "shim"
       /\ on.listener = (IF last.args[1] \in {Null, Undefined} THEN Noop
                         ELSE last.args[1])

\* C22 witness: a firing called a wrapper that forwarded to a user listener.
C22_Witness ==
  /\ last.op = "fire"
  /\ \E h \in 1..Len(last.heard) : last.heard[h].wrapped
  /\ \E j \in 1..Len(Fired) : Fired[j].k = "shim" /\ UserListener(Fired[j]) # Noop

\* The records of traced member accesses the last operation emitted.
AccessRecords ==
  {i \in (last.logLen + 1)..Len(log) :
     log[i].type \in {LogTypes.Getter, LogTypes.Setter, LogTypes.Method}}

\* C23 (as claimed): traceObject on an object not yet instrumented, whatever
\* the options and whichever members are native accessors, completes, and its
\* identity assignment emits no Getter, Setter or Method record.
C23_IdentityNotTraced ==
  (last.op = "traceObject" /\ ~last.marked)
    => ~last.threw /\ AccessRecords = {}

\* The Setter records the last operation emitted.
SetterRecords ==
  {i \in (last.logLen + 1)..Len(log) : log[i].type = LogTypes.Setter}

\* The last operation read or wrote, through an instrumented object, a
\* member that carries the shim of a plain stored value.
StoredAccess(op) ==
  /\ last.op = op
  /\ last.marked
  /\ heap[last.object].shim[last.member].kind = "property"

AccessorAccess(op) ==
  /\ last.op = op
  /\ heap[last.object].shim[last.member].kind = "accessor"

\* The records of the given type the last operation emitted.
RecordsOfType(type) ==
  {i \in (last.logLen + 1)..Len(log) : log[i].type = type}

\* The runs of the original accessor function fn of the member the last
\* operation accessed.
OriginalRuns(fn) ==
  {h \in 1..Len(last.heard) :
     last.heard[h].fn = fn /\ last.heard[h].member = last.member}

\* C25 (as claimed): a read through the shim of a native accessor ends
\* (no exhausted call stack), runs the original getter once, emits exactly
\* one Getter record, with the value returned or the error thrown, and
\* returns or throws the same; a write likewise with the original setter and
\* one Setter record with the value written or the error thrown.
C25_AccessorProperty ==
  /\ AccessorAccess("read") =>
       /\ last.threw => last.ret # RangeError
       /\ Cardinality(OriginalRuns("get")) = 1
       /\ Cardinality(RecordsOfType(LogTypes.Getter)) = 1
       /\ \A i \in RecordsOfType(LogTypes.Getter) :
            /\ log[i].name = last.member
            /\ IF last.threw THEN log[i].threw = last.ret
                             ELSE log[i].result = last.ret
  /\ AccessorAccess("write") =>
       /\ last.threw => last.ret # RangeError
       /\ Cardinality(OriginalRuns("set")) = 1
       /\ Cardinality(RecordsOfType(LogTypes.Setter)) = 1
       /\ \A i \in RecordsOfType(LogTypes.Setter) :
            /\ log[i].name = last.member
            /\ IF last.threw THEN log[i].threw = last.ret
                             ELSE log[i].value = last.args[1]

\* The Event records that tell of the settlement of the deferred value of
\* member k, emitted for the instrumented object t.
PromiseRecords(t, k, outcome) ==
  {i \in 1..Len(log) : /\ log[i].type = LogTypes.Event
                       /\ log[i].instance = Ref(t)
                       /\ log[i].name = k \o " Promise " \o outcome}

\* The member k of t went to _shimPromiseProperty.
PromiseShimmed(t, k) == heap[t].shim[k].kind \in {"promise", "promised"}

\* The deferred value of the member k that t instruments.
SettledAs(t, k) == promises[heap[heap[t].shim[k].object].data[k].r]

\* C26 (as claimed): for a member that went to _shimPromiseProperty, once
\* the callback for the settlement has run there is exactly one Event record,
\* "<member> Promise resolved" with the result or "<member> Promise rejected"
\* with the error, never both, and none before; and a read of the member on
\* the instrumented object gives the deferred value the original holds.
C26_PromiseProperty ==
  /\ \A t \in 1..Len(heap) :
       PromiseShimmed(t, "x") =>
         LET resolved == PromiseRecords(t, "x", "resolved")
             rejected == PromiseRecords(t, "x", "rejected")
             settled == SettledAs(t, "x")
         IN  /\ heap[t].shim["x"].kind = "promise" =>
                  resolved = {} /\ rejected = {}
             /\ heap[t].shim["x"].kind = "promised" =>
                  /\ Cardinality(resolved \cup rejected) = 1
                  /\ settled.state = "fulfilled" =>
                       \A i \in resolved \cup rejected :
                         i \in resolved /\ log[i].result = settled.value
                  /\ settled.state = "rejected" =>
                       \A i \in resolved \cup rejected :
                         i \in rejected /\ log[i].threw = settled.value
  /\ (last.op = "read" /\ last.marked /\ PromiseShimmed(last.object, last.member))
       => /\ ~last.threw
          /\ last.ret = heap[heap[last.object].shim[last.member].object]
                          .data[last.member]

\* The listeners an event target holds: the one of its listener property
\* and the registered ones.
HeldListeners(o) ==
  {heap[o].on} \cup {heap[o].registered[i][2] : i \in 1..Len(heap[o].registered)}

\* C27 (as claimed): for an object instrumented with events false, the
\* listener property carries no listener shim and addEventListener no
\* dynamic wrapper, the listener property went through the generic member
\* shim, no function of _shimEventListener is registered on the target, and
\* no Event record is emitted.
C27_EventsGated ==
  \A t \in Traced :
    ~heap[t].options.events =>
      /\ heap[t].shim["onxchange"].kind \notin {"listener"}
      /\ heap[t].shim["addEventListener"].kind # "dynamic"
      /\ heap[t].shim["onxchange"].kind = "accessor"
      /\ \A l \in HeldListeners(heap[t].object) : l.k # "shim"
      /\ \A i \in 1..Len(log) : log[i].type # LogTypes.Event

\* C28 (as claimed): whatever in-place instrumentation was applied to a
\* member, and however often, one invocation of an instrumented method emits
\* exactly one Method record, and one read or write of a property emits at
\* most one Getter or Setter record.
C28_NoDoubleInstrumentation ==
  /\ last.op = "invoke" =>
       /\ Cardinality(RecordsOfType(LogTypes.Method)) <= 1
       /\ heap[Holder(heap, last.object, "m")].shim["m"].kind = "method" =>
            Cardinality(RecordsOfType(LogTypes.Method)) = 1
  /\ last.op = "read" => Cardinality(RecordsOfType(LogTypes.Getter)) <= 1
  /\ last.op = "assign" => Cardinality(RecordsOfType(LogTypes.Setter)) <= 1

\* The Event records of the latest firing carry the identity of an
\* instrumented object that stands for the target.
SameIdentity ==
  (last.op = "fire" /\ InstrumentedFor(last.object) # {})
    => \A i \in EventRecords :
         \E t \in InstrumentedFor(last.object) :
           log[i].instanceId = heap[t].genId

\* A firing leaves the per-class counters as they were.
CounterKept == last'.op = "fire" => nextGeneratedId' = nextGeneratedId

\* C29 (as claimed): without idProperty, with inPlace true or false, every
\* Event record emitted when an event fires on an instrumented target carries
\* the identity the instrumented object has in its other records, and emitting
\* it never consumes a new value of the per-class counter.
C29_OneIdentity == []SameIdentity /\ [][CounterKept]_vars

\* C30 (as claimed): the propagation of the value an instrumented method
\* returned, or of the value its deferred result settled with, finishes:
\* no call or settlement ends with the call stack exhausted, whatever the
\* explored fields of the result lead to.
C30_PropagationTerminates ==
  last.op \in {"call", "settle"} => ~(last.threw /\ last.ret = RangeError)

\* Invocation c was in flight together with another shimmed call that
\* returned a deferred value: one made after it, or an earlier one that is
\* still pending.
Overlapped(c) ==
  \E d \in 1..Len(calls) :
    /\ d # c /\ DeferredCall(d)
    /\ d > c \/ calls[d].state = "pending"

\* The deferred value the caller of invocation c holds has settled as the
\* original of c did: with its failure, or with its value as propagated.
OwnOutcome(c) ==
  LET own == promises[calls[c].returnValue]
      got == promises[calls[c].promiseShim]
  IN  /\ got.state = own.state
      /\ own.state = "rejected" => got.value = own.value
      /\ own.state = "fulfilled" =>
           \/ got.value = own.value
           \/ /\ got.value.k = "object" /\ own.value.k = "object"
              /\ heap[got.value.r].object = own.value.r

\* C31 (as claimed): when the deferred value of a shimmed call settles while
\* other such calls are or were in flight with it, in any order, the call has
\* exactly one Method record, with its own args; with deferred logging the
\* record is emitted at this settlement, after every earlier one, with the
\* call's own outcome; the deferred value its caller holds settles with the
\* call's own outcome; and the records of the other calls are as they were.
C31_NoInterference ==
  (last.op = "settle" /\ DeferredCall(last.object) /\ Overlapped(last.object))
    => LET c == last.object IN
       /\ Cardinality(MethodRecords(c)) = 1
       /\ \A i \in MethodRecords(c) : log[i].args = calls[c].args
       /\ ~calls[c].options.logAsyncResultsImmediately =>
            /\ Len(log) = last.logLen + 1
            /\ MethodRecords(c) = {Len(log)}
            /\ IF promises[calls[c].returnValue].state = "fulfilled"
                 THEN /\ log[Len(log)].result = promises[calls[c].promiseShim].value
                      /\ log[Len(log)].threw = Absent
                 ELSE /\ log[Len(log)].threw = promises[calls[c].returnValue].value
                      /\ log[Len(log)].result = Absent
       /\ OwnOutcome(c)
       /\ \A d \in 1..Len(calls) :
            (d # c /\ DeferredCall(d) /\ calls[d].state = "pending") =>
               MethodRecords(d) =
                 IF calls[d].options.logAsyncResultsImmediately
                   THEN {calls[d].logLen} ELSE {}

====
